---- MODULE Spec2Model ----
(***************************************************************************)
(* Model of the box2d step core: the staged, work-stealing constraint      *)
(* solver of solver.c (b2Solve, b2SolverTask, b2ExecuteMainStage,          *)
(* b2ExecuteStage, GetWorkerStartIndex) and the sensor overlap engine of   *)
(* sensor.c (b2SensorTask, b2OverlapSensors, b2DestroySensor).             *)
(*                                                                         *)
(* Two state machines share the module.  Spec is the solver step: one      *)
(* main worker and workerCount-1 helpers stepping through the stages;      *)
(* every atomic operation of the code (store, load, compare-and-swap,      *)
(* fetch-add) is one step.  SensorSpec is the sensor engine driven by the  *)
(* operations that reach it.  Each machine leaves the other's variables    *)
(* unchanged.                                                              *)
(***************************************************************************)
EXTENDS Integers, Sequences, FiniteSets, TLC

(***************************************************************************)
(* Bounds of the model.                                                    *)
(***************************************************************************)
MaxSubSteps == 1       \* subStepCount ranges over 0..MaxSubSteps
MaxColors == 2         \* graph colors before the overflow color

(***************************************************************************)
(* Program constants.                                                      *)
(***************************************************************************)
ITERATIONS == 1
RELAX_ITERATIONS == 1
B2_SIMD_SHIFT == 2
B2_NULL_INDEX == -1
\* a uint32_t is kept as its two 16-bit halves << high, low >>
UINT_MAX == << 65535, 65535 >>
ZeroBits == << 0, 0 >>
blocksPerWorker == 4
B2_MAX_CONTINUOUS_SENSOR_HITS == 8

\* a fraction of a sweep is a multiple of 1 / FractionSteps
FractionSteps == 3
\* shapes a sweep meets after the state it starts in
MaxCandidates == 3
\* workers of the finalize task and of the bullet task
MaxStepWorkers == 2
\* B2_TIME_TO_SLEEP in time steps
B2_TIME_TO_SLEEP == 2
MaxPrepWorkers == 3
MaxPrepCount == 40

b2MinInt(a, b) == IF a < b THEN a ELSE b

\* x >> k for a non-negative int
ShiftRight(x, k) == x \div (2 ^ k)

\* ( syncIndex << 16 ) | stageIndex as a uint32_t, for 0 <= stageIndex < 2^16:
\* the shift drops the bits of syncIndex above the low 16
\* mutant: the sync index is left out of the sync bits
PackSyncBitsNoSync(syncIndex, stageIndex) == << 0, stageIndex % 65536 >>
PackSyncBits(syncIndex, stageIndex) == << syncIndex % 65536, stageIndex % 65536 >>

\* syncBits & 0xFFFF
StageIndexOf(syncBits) == syncBits[2]

\* ( syncBits >> 16 ) & 0xFFFF
SyncIndexOf(syncBits) == syncBits[1]

(***************************************************************************)
(* The block scheduler of b2Solve.                                         *)
(***************************************************************************)

\* bodyBlockCount for awakeBodyCount >= 1 and maxBlockCount = 4 * workerCount
BodyBlockCount(awakeBodyCount, maxBlockCount) ==
    IF awakeBodyCount > 32 * maxBlockCount
    THEN maxBlockCount
    ELSE ShiftRight(awakeBodyCount - 1, 5) + 1

\* colorContactCountSIMD: SIMD groups of a color with colorContactCount contacts
ContactCountSIMD(colorContactCount) ==
    IF colorContactCount > 0
    THEN ShiftRight(colorContactCount - 1, B2_SIMD_SHIFT) + 1
    ELSE 0

\* colorContactBlockCounts[c] and colorJointBlockCounts[c]: both families
\* use the same rule on their element count
ColorBlockCount(count, maxBlockCount) ==
    IF count > blocksPerWorker * maxBlockCount
    THEN maxBlockCount
    ELSE IF count > 0 THEN ShiftRight(count - 1, 2) + 1 ELSE 0

\* contactBlockCount and jointBlockCount of the prepare / store stages
FlatBlockCount(count, maxBlockCount) ==
    IF count > blocksPerWorker * maxBlockCount
    THEN maxBlockCount
    ELSE IF count > 0 THEN ShiftRight(count - 1, 2) + 1 ELSE 0

RECURSIVE SumSeq(_)
SumSeq(s) == IF s = <<>> THEN 0 ELSE Head(s) + SumSeq(Tail(s))

\* the positions (1-based) of the palette colors that hold a constraint,
\* in ascending order: activeColorIndices
ActiveColorIndices(colorJoints, colorContacts) ==
    SelectSeq([i \in 1..Len(colorJoints) |-> i],
              LAMBDA i : colorJoints[i] + colorContacts[i] > 0)

StageRec(type, blocks, blockCount, colorIndex) ==
    [type |-> type, blocks |-> blocks, blockCount |-> blockCount, colorIndex |-> colorIndex]

\* one stage per active color, sharing graphColorBlocks[i]
ColorStages(type, active, colorJoints, colorContacts, maxBlockCount) ==
    [i \in 1..Len(active) |->
        StageRec(type, <<"graph", i - 1>>,
                 ColorBlockCount(colorJoints[active[i]], maxBlockCount)
                   + ColorBlockCount(ContactCountSIMD(colorContacts[active[i]]), maxBlockCount),
                 active[i] - 1)]

RECURSIVE Repeat(_, _)
Repeat(s, n) == IF n <= 0 THEN <<>> ELSE s \o Repeat(s, n - 1)

\* the stage array of b2Solve, as a sequence (stage k of the code is element k+1)
BuildStages(awakeBodyCount, colorJoints, colorContacts, wc) ==
    LET maxBlockCount == blocksPerWorker * wc
        active == ActiveColorIndices(colorJoints, colorContacts)
        awakeJointCount == SumSeq(colorJoints)
        simdContactCount == SumSeq([i \in 1..Len(active) |-> ContactCountSIMD(colorContacts[active[i]])])
        jointBlockCount == FlatBlockCount(awakeJointCount, maxBlockCount)
        contactBlockCount == FlatBlockCount(simdContactCount, maxBlockCount)
        bodyBlockCount == BodyBlockCount(awakeBodyCount, maxBlockCount)
        color(type) == ColorStages(type, active, colorJoints, colorContacts, maxBlockCount)
    IN  << StageRec("PrepareJoints", <<"joint", 0>>, jointBlockCount, -1),
           StageRec("PrepareContacts", <<"contact", 0>>, contactBlockCount, -1),
           StageRec("IntegrateVelocities", <<"body", 0>>, bodyBlockCount, -1) >>
        \o color("WarmStart")
        \o Repeat(color("Solve"), ITERATIONS)
        \o << StageRec("IntegratePositions", <<"body", 0>>, bodyBlockCount, -1) >>
        \o Repeat(color("Relax"), RELAX_ITERATIONS)
        \o color("Restitution")
        \o << StageRec("StoreImpulses", <<"contact", 0>>, contactBlockCount, -1) >>

\* stageCount as b2Solve adds it up
\* mutant: the restitution stages are not counted
StageCountNoRestitution(activeColorCount) ==
    1 + 1 + 1 + activeColorCount + ITERATIONS * activeColorCount + 1
      + RELAX_ITERATIONS * activeColorCount + 1

StageCount(activeColorCount) ==
    1 + 1 + 1 + activeColorCount + ITERATIONS * activeColorCount + 1
      + RELAX_ITERATIONS * activeColorCount + activeColorCount + 1

\* mutant: the case of fewer blocks than workers is not told apart
GetWorkerStartIndexNoNull(workerIndex, blockCount, wc) ==
    LET perWorker == blockCount \div wc
        remainder == blockCount - perWorker * wc
    IN  perWorker * workerIndex + b2MinInt(remainder, workerIndex)

GetWorkerStartIndex(workerIndex, blockCount, wc) ==
    IF blockCount <= wc
    THEN (IF workerIndex < blockCount THEN workerIndex ELSE B2_NULL_INDEX)
    ELSE LET perWorker == blockCount \div wc
             remainder == blockCount - perWorker * wc
         IN  perWorker * workerIndex + b2MinInt(remainder, workerIndex)


(***************************************************************************)
(* State of the solver step.                                               *)
(***************************************************************************)
VARIABLES
    input,            \* the step inputs: workerCount, subStepCount, awakeBodyCount,
                      \* per-color joint and contact counts, inlineTasks
    stages,           \* the stage array built by b2Solve
    blockSync,        \* syncIndex of every block, per block array
    completionCount,  \* completionCount of every stage
    atomicSyncBits,   \* context->atomicSyncBits
    main,             \* locals of the main worker's branch of b2SolverTask
    wk,               \* per worker: position in b2SolverTask / b2ExecuteStage
    execCount,        \* instrumentation: kernel invocations per block
    visitCount,       \* instrumentation: stage visits per block array
    execBy,           \* instrumentation: kernel invocations per worker
    claimKinds,       \* instrumentation: how blocks were obtained so far
    failedAsserts     \* the B2_ASSERTs that failed so far

solverVars == << input, stages, blockSync, completionCount, atomicSyncBits, main, wk,
                 execCount, visitCount, execBy, claimKinds, failedAsserts >>

(***************************************************************************)
(* State of the sensor overlap engine.                                     *)
(***************************************************************************)
VARIABLES
    phase,              \* "solve": the next b2Solve reports its sensor hits;
                        \* "sensors": the next b2OverlapSensors consumes them
    shapes,             \* world->shapes: per shape id alive, generation,
                        \* enableSensorEvents, sensorIndex
    bodyDisabled,       \* the sensors' body is in b2_disabledSet
    sensors,            \* world->sensors: shapeId, overlaps1, overlaps2, hits
    eventBits,          \* the union of the per-worker eventBits of the last pass
    sensorBeginEvents,  \* world->sensorBeginEvents since the last pass began
    sensorEndEvents,    \* world->sensorEndEvents since the last pass began
    refSensors,         \* the sensors of the same history run with one worker
    refBeginEvents,     \* the begin events of the one-worker run
    refEndEvents        \* the end events of the one-worker run

sensorVars == << phase, shapes, bodyDisabled, sensors, eventBits, sensorBeginEvents,
                 sensorEndEvents, refSensors, refBeginEvents, refEndEvents >>

(***************************************************************************)
(* State of the continuous collision of one fast body.                     *)
(***************************************************************************)
VARIABLES
    ccd                 \* b2SolveContinuous: the b2ContinuousContext, the position
                        \* in the function, the candidates visited so far and
                        \* the sensor hits pushed to the task context

ccdVars == << ccd >>

(***************************************************************************)
(* State of b2Solve around the solver stages.                              *)
(***************************************************************************)
VARIABLES
    solve,              \* b2Solve: the position in the function, the world it was
                        \* called on, the stages run, the arena calls made, the
                        \* bodies finalized and the bullets swept
    world,              \* b2World: taskContexts, arena, bodyMoveEvents,
                        \* jointEvents, splitIslandId, the awake body sims and
                        \* the sleep times of their bodies
    stepContext         \* b2StepContext: bulletBodyCount and the bulletBodies array

stepVars == << solve, world, stepContext >>

(***************************************************************************)
(* State of the stage preparation of b2SolverStep for one block family.    *)
(***************************************************************************)
VARIABLES
    prep                \* the family, its element count, the worker count, the
                        \* block size and count chosen and the blocks written

prepVars == << prep >>

\* what each part of the model leaves alone
nonSolverVars == << sensorVars, ccdVars, stepVars, prepVars >>
nonSensorVars == << solverVars, ccdVars, stepVars, prepVars >>
nonCcdVars == << solverVars, sensorVars, stepVars, prepVars >>
nonStepVars == << solverVars, sensorVars, ccdVars, prepVars >>
nonPrepVars == << solverVars, sensorVars, ccdVars, stepVars >>

workerCount == input.workerCount
subStepCount == input.subStepCount
activeColorCount == Len(ActiveColorIndices(input.colorJoints, input.colorContacts))
stageCount == StageCount(activeColorCount)
Workers == 0..(workerCount - 1)

\* stages[k] of the code
StageAt(k) == stages[k + 1]

\* The step inputs explored.  A color pattern gives the joint and contact
\* counts of the palette colors, repeated cyclically over the palette:
\* pattern 1 has a three-block color (5 joints, 1 contact) and a one-block
\* color; pattern 2 has an empty color and a four-block color (5 joints, 17
\* contacts); pattern 3 has no constraints at all.
JointPatterns == << <<5, 0>>, <<0, 5>>, <<0, 0>> >>
ContactPatterns == << <<1, 1>>, <<0, 17>>, <<0, 0>> >>
Cyclic(pattern) == [i \in 1..MaxColors |-> pattern[((i - 1) % Len(pattern)) + 1]]
BodyCounts == {1, 33}

MakeInput(wc, ss, bodies, p, inline) ==
    [workerCount |-> wc, subStepCount |-> ss, awakeBodyCount |-> bodies,
     colorJoints |-> Cyclic(JointPatterns[p]),
     colorContacts |-> Cyclic(ContactPatterns[p]),
     inlineTasks |-> inline]

\* one or two workers over every substep count, body count and pattern, with
\* threads or with an inline task queue; three workers (where a worker can be
\* left without a start block) over the stages outside the substep loop
Inputs ==
    {MakeInput(wc, ss, bodies, p, inline) :
        wc \in {1, 2}, ss \in 0..MaxSubSteps, bodies \in BodyCounts,
        p \in 1..Len(JointPatterns), inline \in BOOLEAN}
    \cup {MakeInput(3, 0, bodies, 1, FALSE) : bodies \in BodyCounts}

BlockArrays(stgs) == {stgs[k].blocks : k \in 1..Len(stgs)}
ArrayBlockCount(stgs, a) == stgs[CHOOSE k \in 1..Len(stgs) : stgs[k].blocks = a].blockCount

(***************************************************************************)
(* The main worker's walk over the stages (b2SolverTask, workerIndex 0).   *)
(* Each After... operator is the bookkeeping between the return of one     *)
(* b2ExecuteMainStage call and the next call, overflow work included.      *)
(***************************************************************************)
LogStage(m, k) ==
    [m EXCEPT !.log = Append(@, [k |-> "stage", type |-> StageAt(k).type,
                                 colorIndex |-> StageAt(k).colorIndex,
                                 useBias |-> (StageAt(k).type = "Solve")])]

LogOverflow(m, type, useBias) ==
    [m EXCEPT !.log = Append(@, [k |-> "overflow", type |-> type,
                                 colorIndex |-> -1, useBias |-> useBias])]

RestLoop(m) ==
    IF m.colorIndex < activeColorCount
    THEN [m EXCEPT !.site = "Restitution"]
    ELSE LogOverflow([m EXCEPT !.stageIndex = @ + activeColorCount,
                               !.site = "StoreImpulses"],
                     "StoreImpulses", FALSE)

ToRestitution(m) ==
    LET next == m.stageIndex + 1 + activeColorCount + ITERATIONS * activeColorCount
                  + 1 + RELAX_ITERATIONS * activeColorCount
    IN  RestLoop(LogOverflow([m EXCEPT !.stageIndex = next, !.iterStageIndex = next,
                                       !.colorIndex = 0],
                             "Restitution", FALSE))

SubStepTop(m) ==
    IF m.i < subStepCount
    THEN [m EXCEPT !.site = "IntegrateVelocities", !.iterStageIndex = m.stageIndex]
    ELSE ToRestitution(m)

RECURSIVE RelaxOuter(_), RelaxInner(_)
RelaxOuter(m) ==
    IF m.j < RELAX_ITERATIONS
    THEN RelaxInner(LogOverflow([m EXCEPT !.colorIndex = 0], "Relax", FALSE))
    ELSE SubStepTop([m EXCEPT !.i = @ + 1])
RelaxInner(m) ==
    IF m.colorIndex < activeColorCount
    THEN [m EXCEPT !.site = "Relax"]
    ELSE RelaxOuter([m EXCEPT !.graphSyncIndex = @ + 1, !.j = @ + 1])

RECURSIVE SolveOuter(_), SolveInner(_)
SolveOuter(m) ==
    IF m.j < ITERATIONS
    THEN SolveInner(LogOverflow([m EXCEPT !.colorIndex = 0], "Solve", TRUE))
    ELSE [m EXCEPT !.site = "IntegratePositions"]
SolveInner(m) ==
    IF m.colorIndex < activeColorCount
    THEN [m EXCEPT !.site = "Solve"]
    ELSE SolveOuter([m EXCEPT !.graphSyncIndex = @ + 1, !.j = @ + 1])

WarmLoop(m) ==
    IF m.colorIndex < activeColorCount
    THEN [m EXCEPT !.site = "WarmStart"]
    ELSE SolveOuter([m EXCEPT !.graphSyncIndex = @ + 1, !.j = 0])

\* the locals of the main worker after the call at m.site has returned
AfterCall(m) ==
    CASE m.site = "PrepareJoints" ->
            [m EXCEPT !.stageIndex = @ + 1, !.jointSyncIndex = @ + 1,
                      !.site = "PrepareContacts"]
      [] m.site = "PrepareContacts" ->
            SubStepTop(LogOverflow([m EXCEPT !.stageIndex = @ + 1,
                                             !.contactSyncIndex = @ + 1,
                                             !.graphSyncIndex = 1, !.i = 0],
                                   "Prepare", FALSE))
      [] m.site = "IntegrateVelocities" ->
            WarmLoop(LogOverflow([m EXCEPT !.iterStageIndex = @ + 1,
                                           !.bodySyncIndex = @ + 1, !.colorIndex = 0],
                                 "WarmStart", FALSE))
      [] m.site = "WarmStart" ->
            WarmLoop([m EXCEPT !.iterStageIndex = @ + 1, !.colorIndex = @ + 1])
      [] m.site = "Solve" ->
            SolveInner([m EXCEPT !.iterStageIndex = @ + 1, !.colorIndex = @ + 1])
      [] m.site = "IntegratePositions" ->
            RelaxOuter([m EXCEPT !.iterStageIndex = @ + 1, !.bodySyncIndex = @ + 1,
                                 !.j = 0])
      [] m.site = "Relax" ->
            RelaxInner([m EXCEPT !.iterStageIndex = @ + 1, !.colorIndex = @ + 1])
      [] m.site = "Restitution" ->
            RestLoop([m EXCEPT !.iterStageIndex = @ + 1, !.colorIndex = @ + 1])
      [] m.site = "StoreImpulses" ->
            [m EXCEPT !.site = "Signal"]

\* mutant: the substep stages are addressed with stageIndex, not iterStageIndex
SiteStageNoIter(m) == m.stageIndex

\* the stage index the call at m.site passes to b2ExecuteMainStage
SiteStage(m) ==
    IF m.site \in {"PrepareJoints", "PrepareContacts", "StoreImpulses"}
    THEN m.stageIndex
    ELSE m.iterStageIndex

\* the sync index the call at m.site packs into syncBits
SiteSync(m) ==
    CASE m.site = "PrepareJoints" -> m.jointSyncIndex
      [] m.site \in {"PrepareContacts", "StoreImpulses"} -> m.contactSyncIndex
      [] m.site \in {"IntegrateVelocities", "IntegratePositions"} -> m.bodySyncIndex
      [] OTHER -> m.graphSyncIndex

SiteSyncBits(m) == PackSyncBits(SiteSync(m), SiteStage(m))

CallSites == {"PrepareJoints", "PrepareContacts", "IntegrateVelocities", "WarmStart",
              "Solve", "IntegratePositions", "Relax", "Restitution", "StoreImpulses"}


(***************************************************************************)
(* Workers.                                                                *)
(***************************************************************************)
IdleWorker(pc, lastSyncBits) ==
    [pc |-> pc, stage |-> -1, previousSyncIndex |-> 0, syncIndex |-> 0,
     syncBits |-> ZeroBits,
     startIndex |-> -1, blockIndex |-> -1, completedCount |-> 0, running |-> -1,
     lastSyncBits |-> lastSyncBits]

\* mutant: the exchange ignores the expected value
CasAlways(current, expected) == TRUE

\* b2AtomicCompareExchangeInt( &block.syncIndex, expected, desired ) succeeds
CasSucceeds(current, expected) == current = expected

\* mutant: the main worker does not wait for the other workers
BarrierNoWait(count, blockCount) == TRUE

\* mutant: the main worker waits for one completion too many
BarrierOffByOne(count, blockCount) == count = blockCount + 1

\* the main worker's barrier: b2AtomicLoadInt( &stage->completionCount ) == blockCount
BarrierOpen(count, blockCount) == count = blockCount

\* the worker's spin loop ends: atomicSyncBits differs from lastSyncBits
SyncBitsChanged(syncBits, lastSyncBits) == syncBits # lastSyncBits

\* mutant: previousSyncIndex is taken to be syncIndex itself
EnterStageNoPrev(w, k, syncBits, returnPc, lastSyncBits) ==
    LET start == GetWorkerStartIndex(w, stages[k + 1].blockCount, input.workerCount)
    IN  IF start = B2_NULL_INDEX
        THEN IdleWorker(returnPc, lastSyncBits)
        ELSE [pc |-> "forward", stage |-> k,
              previousSyncIndex |-> SyncIndexOf(syncBits),
              syncIndex |-> SyncIndexOf(syncBits), syncBits |-> syncBits,
              startIndex |-> start, blockIndex |-> start, completedCount |-> 0,
              running |-> -1, lastSyncBits |-> lastSyncBits]

\* b2ExecuteStage up to its first compare-and-swap: the worker's locals, or the
\* idle record when GetWorkerStartIndex returns B2_NULL_INDEX (early return)
EnterStage(w, k, syncBits, returnPc, lastSyncBits) ==
    LET start == GetWorkerStartIndex(w, StageAt(k).blockCount, workerCount)
    IN  IF start = B2_NULL_INDEX
        THEN IdleWorker(returnPc, lastSyncBits)
        ELSE [pc |-> "forward", stage |-> k,
              previousSyncIndex |-> SyncIndexOf(syncBits) - 1,
              syncIndex |-> SyncIndexOf(syncBits), syncBits |-> syncBits,
              startIndex |-> start, blockIndex |-> start, completedCount |-> 0,
              running |-> -1, lastSyncBits |-> lastSyncBits]

\* the tasks run one after another when the task queue runs them inline
CanRun(w) == input.inlineTasks => \A v \in Workers : v < w => wk[v].pc = "done"

CountKernel(w, a, b, kind) ==
    /\ execCount' = [execCount EXCEPT ![a][b] = @ + 1]
    /\ execBy' = [execBy EXCEPT ![w] = @ + 1]
    /\ claimKinds' = claimKinds \cup {kind}

\* enqueueTaskFcn( b2SolverTask, ... ) starts the task of worker w
Start(w) ==
    /\ UNCHANGED nonSolverVars
    /\ wk[w].pc = "notStarted"
    /\ CanRun(w)
    /\ wk' = [wk EXCEPT ![w] = IdleWorker(IF w = 0 THEN "ready" ELSE "spin", ZeroBits)]
    /\ UNCHANGED << input, stages, blockSync, completionCount, atomicSyncBits, main,
                    execCount, visitCount, execBy, claimKinds, failedAsserts >>

\* the main worker calls b2ExecuteMainStage at its current call site
MainCall ==
    /\ UNCHANGED nonSolverVars
    /\ wk[0].pc = "ready"
    /\ main.site \in CallSites
    /\ LET k == SiteStage(main)
           bits == SiteSyncBits(main)
           st == StageAt(k)
           m1 == LogStage(main, k)
           typeOk == st.type = main.site
       IN  /\ failedAsserts' = failedAsserts
                \cup (IF typeOk THEN {} ELSE {"stageType"})
                \cup (IF st.blockCount > 1 /\ SyncIndexOf(bits) <= 0 THEN {"syncIndex"} ELSE {})
           /\ visitCount' = [visitCount EXCEPT ![st.blocks] = IF st.blockCount > 0 THEN @ + 1 ELSE @]
           /\ IF st.blockCount = 0
              THEN /\ main' = AfterCall(m1)
                   /\ UNCHANGED << wk, atomicSyncBits, execCount, execBy, claimKinds >>
              ELSE IF st.blockCount = 1
              THEN /\ main' = m1
                   /\ wk' = [wk EXCEPT ![0] = [IdleWorker("inline", ZeroBits) EXCEPT
                                                 !.stage = k, !.running = 0,
                                                 !.syncIndex = SiteSync(main)]]
                   /\ CountKernel(0, st.blocks, 0, "inline")
                   /\ UNCHANGED atomicSyncBits
              ELSE /\ main' = [m1 EXCEPT !.published = Append(@, bits)]
                   /\ atomicSyncBits' = bits
                   /\ wk' = [wk EXCEPT ![0] = EnterStage(0, k, bits, "wait", ZeroBits)]
                   /\ UNCHANGED << execCount, execBy, claimKinds >>
    /\ UNCHANGED << input, stages, blockSync, completionCount >>

\* the single block of a one-block stage has run on the main worker
MainInlineDone ==
    /\ UNCHANGED nonSolverVars
    /\ wk[0].pc = "inline"
    /\ wk' = [wk EXCEPT ![0] = IdleWorker("ready", ZeroBits)]
    /\ main' = AfterCall(main)
    /\ UNCHANGED << input, stages, blockSync, completionCount, atomicSyncBits,
                    execCount, visitCount, execBy, claimKinds, failedAsserts >>

\* a worker w >= 1 leaves its spin loop with a new value of atomicSyncBits
WorkerRead(w) ==
    /\ UNCHANGED nonSolverVars
    /\ w # 0
    /\ wk[w].pc = "spin"
    /\ SyncBitsChanged(atomicSyncBits, wk[w].lastSyncBits)
    /\ IF atomicSyncBits = UINT_MAX
       THEN /\ wk' = [wk EXCEPT ![w] = IdleWorker("done", wk[w].lastSyncBits)]
            /\ UNCHANGED failedAsserts
       ELSE LET k == StageIndexOf(atomicSyncBits)
            IN  /\ failedAsserts' = failedAsserts
                     \cup (IF k < stageCount THEN {} ELSE {"stageIndex"})
                     \cup (IF SyncIndexOf(atomicSyncBits) > 0 THEN {} ELSE {"syncIndex"})
                /\ k < stageCount
                /\ wk' = [wk EXCEPT ![w] =
                            EnterStage(w, k, atomicSyncBits, "spin", atomicSyncBits)]
    /\ UNCHANGED << input, stages, blockSync, completionCount, atomicSyncBits, main,
                    execCount, visitCount, execBy, claimKinds >>

\* the forward loop of b2ExecuteStage: the block claimed last has run, and the
\* next compare-and-swap is made
Forward(w) ==
    /\ UNCHANGED nonSolverVars
    /\ wk[w].pc = "forward"
    /\ LET r == wk[w]
           st == StageAt(r.stage)
           fin == IF r.running # -1
                  THEN [r EXCEPT !.completedCount = @ + 1,
                                 !.blockIndex = IF @ + 1 >= st.blockCount THEN 0 ELSE @ + 1,
                                 !.running = -1]
                  ELSE r
           b == fin.blockIndex
       IN  IF CasSucceeds(blockSync[st.blocks][b], fin.previousSyncIndex)
           THEN /\ blockSync' = [blockSync EXCEPT ![st.blocks][b] = fin.syncIndex]
                /\ wk' = [wk EXCEPT ![w] = [fin EXCEPT !.running = b]]
                /\ CountKernel(w, st.blocks, b, "forward")
                /\ failedAsserts' = failedAsserts
                     \cup (IF st.type # "PrepareContacts" \/ fin.syncIndex < 2
                           THEN {} ELSE {"prepareContactsSync"})
                     \cup (IF fin.completedCount < st.blockCount
                           THEN {} ELSE {"completedCount"})
           ELSE /\ wk' = [wk EXCEPT ![w] = [fin EXCEPT !.pc = "backward",
                                                       !.blockIndex = fin.startIndex - 1]]
                /\ UNCHANGED << blockSync, execCount, execBy, claimKinds, failedAsserts >>
    /\ UNCHANGED << input, stages, completionCount, atomicSyncBits, main, visitCount >>

\* the backward loop of b2ExecuteStage
Backward(w) ==
    /\ UNCHANGED nonSolverVars
    /\ wk[w].pc = "backward"
    /\ LET r == wk[w]
           st == StageAt(r.stage)
           fin == IF r.running # -1
                  THEN [r EXCEPT !.completedCount = @ + 1, !.blockIndex = @ - 1,
                                 !.running = -1]
                  ELSE r
           b == IF fin.blockIndex < 0 THEN st.blockCount - 1 ELSE fin.blockIndex
       IN  IF CasSucceeds(blockSync[st.blocks][b], fin.previousSyncIndex)
           THEN /\ blockSync' = [blockSync EXCEPT ![st.blocks][b] = fin.syncIndex]
                /\ wk' = [wk EXCEPT ![w] = [fin EXCEPT !.running = b, !.blockIndex = b]]
                /\ CountKernel(w, st.blocks, b, "backward")
           ELSE /\ wk' = [wk EXCEPT ![w] = [fin EXCEPT !.pc = "add", !.blockIndex = b]]
                /\ UNCHANGED << blockSync, execCount, execBy, claimKinds >>
    /\ UNCHANGED << input, stages, completionCount, atomicSyncBits, main, visitCount,
                    failedAsserts >>

\* b2AtomicFetchAddInt( &stage->completionCount, completedCount ) and the return
\* of b2ExecuteStage
Add(w) ==
    /\ UNCHANGED nonSolverVars
    /\ wk[w].pc = "add"
    /\ completionCount' = [completionCount EXCEPT ![wk[w].stage] = @ + wk[w].completedCount]
    /\ wk' = [wk EXCEPT ![w] =
                IF w = 0
                THEN [IdleWorker("wait", ZeroBits) EXCEPT !.stage = wk[w].stage]
                ELSE IdleWorker("spin", wk[w].syncBits)]
    /\ UNCHANGED << input, stages, blockSync, atomicSyncBits, main,
                    execCount, visitCount, execBy, claimKinds, failedAsserts >>

\* the main worker's wait loop sees completionCount == blockCount
MainWait ==
    /\ UNCHANGED nonSolverVars
    /\ wk[0].pc = "wait"
    /\ BarrierOpen(completionCount[wk[0].stage], StageAt(wk[0].stage).blockCount)
    /\ wk' = [wk EXCEPT ![0].pc = "reset"]
    /\ UNCHANGED << input, stages, blockSync, completionCount, atomicSyncBits, main,
                    execCount, visitCount, execBy, claimKinds, failedAsserts >>

\* b2AtomicStoreInt( &stage->completionCount, 0 ) and the return to b2SolverTask
MainReset ==
    /\ UNCHANGED nonSolverVars
    /\ wk[0].pc = "reset"
    /\ completionCount' = [completionCount EXCEPT ![wk[0].stage] = 0]
    /\ wk' = [wk EXCEPT ![0] = IdleWorker("ready", ZeroBits)]
    /\ main' = AfterCall(main)
    /\ UNCHANGED << input, stages, blockSync, atomicSyncBits,
                    execCount, visitCount, execBy, claimKinds, failedAsserts >>

\* the main worker stores the sentinel and returns
MainSignal ==
    /\ UNCHANGED nonSolverVars
    /\ wk[0].pc = "ready"
    /\ main.site = "Signal"
    /\ atomicSyncBits' = UINT_MAX
    /\ failedAsserts' = failedAsserts
         \cup (IF main.stageIndex + 1 = stageCount THEN {} ELSE {"stageCount"})
    /\ main' = [main EXCEPT !.site = "Done"]
    /\ wk' = [wk EXCEPT ![0] = IdleWorker("done", ZeroBits)]
    /\ UNCHANGED << input, stages, blockSync, completionCount,
                    execCount, visitCount, execBy, claimKinds >>

(***************************************************************************)
(* The sensor overlap engine (sensor.c) and the sensor hit report at the   *)
(* end of b2Solve.  Shapes 1 and 2 are visitors, shapes 3 and 4 are        *)
(* sensors on one body.  Both visitors move in and out of sensor 3 and can *)
(* hit it in a continuous sweep; shape 2 always rests on sensor 4, which   *)
(* shape 1 never reaches.  The slot of shape 1 can be destroyed and        *)
(* reused, and the sensor events of shape 3 can be turned off and on.      *)
(***************************************************************************)
MaxGeneration == 2     \* a reused shape slot has generations 1..MaxGeneration

VisitorShapeIds == {1, 2}
ReusedShapeIds == {1}
SensorShapeIds == {3, 4}
ToggledShapeIds == {3}
Reach == (3 :> {1, 2}) @@ (4 :> {2})
Resting == (3 :> {}) @@ (4 :> {2})
HitReach == (3 :> {1, 2}) @@ (4 :> {})
SensorWorkers == {0, 1}

b2Visitor(shapeId, generation) == [shapeId |-> shapeId, generation |-> generation]

\* every visitor reference that can be recorded
VisitorRefs == {b2Visitor(v, g) : v \in VisitorShapeIds, g \in 1..MaxGeneration}

\* the elements of a finite set of shape ids in ascending order
RECURSIVE Ascending(_)
Ascending(S) ==
    IF S = {} THEN <<>>
    ELSE LET m == CHOOSE x \in S : \A y \in S : x <= y
         IN  << m >> \o Ascending(S \ {m})

RECURSIVE Reverse(_)
Reverse(s) == IF s = <<>> THEN <<>> ELSE Reverse(Tail(s)) \o << Head(s) >>

b2CompareVisitors(sa, sb) == IF sa.shapeId < sb.shapeId THEN -1 ELSE 1

\* insertion of x into an array ordered by b2CompareVisitors, after the
\* entries that do not compare greater
RECURSIVE InsertVisitor(_, _)
InsertVisitor(x, arr) ==
    IF arr = <<>> THEN << x >>
    ELSE IF b2CompareVisitors(x, Head(arr)) = -1
         THEN << x >> \o arr
         ELSE << Head(arr) >> \o InsertVisitor(x, Tail(arr))

RECURSIVE StableSort(_)
StableSort(arr) ==
    IF arr = <<>> THEN <<>>
    ELSE InsertVisitor(arr[Len(arr)], StableSort(SubSeq(arr, 1, Len(arr) - 1)))

\* qsort( overlaps2, b2CompareVisitors ): the comparator never returns 0, so
\* the order qsort leaves between entries of equal shapeId is up to the
\* library; tie is the library's choice, the same for every call of a pass
Qsort(arr, tie) ==
    IF tie = "keep" THEN StableSort(arr) ELSE StableSort(Reverse(arr))
Ties == {"keep", "flip"}

\* mutant: every entry of the sorted array is kept
KeepDuplicates(overlapData, unique) == unique \o overlapData

\* the loop that removes duplicates from the sorted overlaps2: an entry is
\* kept when its shapeId differs from the last kept entry's
RECURSIVE RemoveDuplicates(_, _)
RemoveDuplicates(overlapData, unique) ==
    IF overlapData = <<>> THEN unique
    ELSE IF unique = <<>> \/ Head(overlapData).shapeId # unique[Len(unique)].shapeId
         THEN RemoveDuplicates(Tail(overlapData), Append(unique, Head(overlapData)))
         ELSE RemoveDuplicates(Tail(overlapData), unique)

\* mutant: only the counts of the two overlap arrays are compared
CountsChanged(overlaps1, overlaps2) == Len(overlaps1) # Len(overlaps2)

\* "something changed": the counts differ or some entry differs in shapeId
\* or generation
OverlapsChanged(overlaps1, overlaps2) ==
    \/ Len(overlaps1) # Len(overlaps2)
    \/ \E i \in 1..Len(overlaps1) :
          \/ overlaps1[i].shapeId # overlaps2[i].shapeId
          \/ overlaps1[i].generation # overlaps2[i].generation

\* the sensor is skipped by the pass: its body is disabled or its sensor
\* events are off
SensorOff(sensor) == bodyDisabled \/ ~shapes[sensor.shapeId].enableSensorEvents

\* the body of the loop of b2SensorTask for one sensor; query is what the
\* three tree queries append through b2SensorQueryCallback
SensorTaskOne(sensor, off, query, tie) ==
    LET overlaps1 == sensor.overlaps2
        appended == sensor.hits
    IN  IF off
        THEN [sensor |-> [sensor EXCEPT !.overlaps1 = overlaps1, !.overlaps2 = appended,
                                        !.hits = <<>>],
              bit |-> Len(overlaps1) # 0]
        ELSE LET overlaps2 == RemoveDuplicates(Qsort(appended \o query, tie), <<>>)
             IN  [sensor |-> [sensor EXCEPT !.overlaps1 = overlaps1,
                                            !.overlaps2 = overlaps2, !.hits = <<>>],
                  bit |-> OverlapsChanged(overlaps1, overlaps2)]

NoEvents == [begin |-> <<>>, end |-> <<>>]

SensorEvent(sensorShapeId, ref) ==
    [sensorShapeId |-> sensorShapeId, visitorShapeId |-> ref]

PushBegin(ev, sensorShapeId, ref) ==
    [ev EXCEPT !.begin = Append(@, SensorEvent(sensorShapeId, ref))]

PushEnd(ev, sensorShapeId, ref) ==
    [ev EXCEPT !.end = Append(@, SensorEvent(sensorShapeId, ref))]

\* mutant: the tail of overlaps2 is not published
RECURSIVE MergeNoTail(_, _, _, _, _, _)
MergeNoTail(sensorShapeId, refs1, refs2, index1, index2, ev) ==
    IF index1 < Len(refs1) /\ index2 < Len(refs2)
    THEN LET r1 == refs1[index1 + 1]
             r2 == refs2[index2 + 1]
         IN  IF r1.shapeId = r2.shapeId
             THEN IF r1.generation < r2.generation
                  THEN MergeNoTail(sensorShapeId, refs1, refs2, index1 + 1, index2,
                                   PushEnd(ev, sensorShapeId, r1))
                  ELSE IF r1.generation > r2.generation
                  THEN MergeNoTail(sensorShapeId, refs1, refs2, index1, index2 + 1,
                                   PushBegin(ev, sensorShapeId, r2))
                  ELSE MergeNoTail(sensorShapeId, refs1, refs2, index1 + 1, index2 + 1, ev)
             ELSE IF r1.shapeId < r2.shapeId
                  THEN MergeNoTail(sensorShapeId, refs1, refs2, index1 + 1, index2,
                                   PushEnd(ev, sensorShapeId, r1))
                  ELSE MergeNoTail(sensorShapeId, refs1, refs2, index1, index2 + 1,
                                   PushBegin(ev, sensorShapeId, r2))
    ELSE IF index1 < Len(refs1)
    THEN MergeNoTail(sensorShapeId, refs1, refs2, index1 + 1, index2,
                     PushEnd(ev, sensorShapeId, refs1[index1 + 1]))
    ELSE ev

\* the merge of overlaps1 and overlaps2 of one sensor in b2OverlapSensors:
\* the main loop, then the tail of overlaps1 (ends), then the tail of
\* overlaps2 (begins)
RECURSIVE Merge(_, _, _, _, _, _)
Merge(sensorShapeId, refs1, refs2, index1, index2, ev) ==
    IF index1 < Len(refs1) /\ index2 < Len(refs2)
    THEN LET r1 == refs1[index1 + 1]
             r2 == refs2[index2 + 1]
         IN  IF r1.shapeId = r2.shapeId
             THEN IF r1.generation < r2.generation
                  THEN Merge(sensorShapeId, refs1, refs2, index1 + 1, index2,
                             PushEnd(ev, sensorShapeId, r1))
                  ELSE IF r1.generation > r2.generation
                  THEN Merge(sensorShapeId, refs1, refs2, index1, index2 + 1,
                             PushBegin(ev, sensorShapeId, r2))
                  ELSE Merge(sensorShapeId, refs1, refs2, index1 + 1, index2 + 1, ev)
             ELSE IF r1.shapeId < r2.shapeId
                  THEN Merge(sensorShapeId, refs1, refs2, index1 + 1, index2,
                             PushEnd(ev, sensorShapeId, r1))
                  ELSE Merge(sensorShapeId, refs1, refs2, index1, index2 + 1,
                             PushBegin(ev, sensorShapeId, r2))
    ELSE IF index1 < Len(refs1)
    THEN Merge(sensorShapeId, refs1, refs2, index1 + 1, index2,
               PushEnd(ev, sensorShapeId, refs1[index1 + 1]))
    ELSE IF index2 < Len(refs2)
    THEN Merge(sensorShapeId, refs1, refs2, index1, index2 + 1,
               PushBegin(ev, sensorShapeId, refs2[index2 + 1]))
    ELSE ev

\* the loop over the set bits of the unioned bit set, ascending sensor index:
\* the events of the sensors with index >= sensorIndex appended to ev
RECURSIVE PublishEvents(_, _, _, _)
PublishEvents(sensorArray, bits, sensorIndex, ev) ==
    IF sensorIndex >= Len(sensorArray) THEN ev
    ELSE IF sensorIndex \in bits
         THEN LET sensor == sensorArray[sensorIndex + 1]
              IN  PublishEvents(sensorArray, bits, sensorIndex + 1,
                                Merge(sensor.shapeId, sensor.overlaps1, sensor.overlaps2,
                                      0, 0, ev))
         ELSE PublishEvents(sensorArray, bits, sensorIndex + 1, ev)


ShapeIds == VisitorShapeIds \cup SensorShapeIds

b2Sensor(shapeId) ==
    [shapeId |-> shapeId, overlaps1 |-> <<>>, overlaps2 |-> <<>>, hits |-> <<>>]

\* the world before its first step: two sensors without overlaps
SensorInit ==
    /\ phase = "solve"
    /\ shapes = [id \in ShapeIds |->
                   [alive |-> TRUE, generation |-> 1, enableSensorEvents |-> TRUE,
                    sensorIndex |-> IF id = 3 THEN 0 ELSE IF id = 4 THEN 1 ELSE B2_NULL_INDEX]]
    /\ bodyDisabled = FALSE
    /\ sensors = << b2Sensor(3), b2Sensor(4) >>
    /\ eventBits = {}
    /\ sensorBeginEvents = <<>>
    /\ sensorEndEvents = <<>>
    /\ refSensors = << b2Sensor(3), b2Sensor(4) >>
    /\ refBeginEvents = <<>>
    /\ refEndEvents = <<>>

\* a continuous hit of visitor v on sensor s can be recorded: both shapes exist
\* and want sensor events, and the sensor's body is in the broad-phase
HitCandidates ==
    {h \in SensorShapeIds \X VisitorShapeIds :
        /\ shapes[h[1]].alive /\ shapes[h[1]].enableSensorEvents /\ ~bodyDisabled
        /\ h[2] \in HitReach[h[1]]
        /\ shapes[h[2]].alive /\ shapes[h[2]].enableSensorEvents}

b2SensorHit(h) == [sensorId |-> h[1], visitorId |-> h[2]]

\* taskContext->sensorHits of one worker: the hits of the bodies it
\* finalized, in the order of the bodies
RECURSIVE TaskSensorHits(_)
TaskSensorHits(H) ==
    IF H = {} THEN <<>>
    ELSE LET m == CHOOSE x \in H : \A y \in H : x[2] * 8 + x[1] <= y[2] * 8 + y[1]
         IN  << b2SensorHit(m) >> \o TaskSensorHits(H \ {m})

\* the hits of the workers 0 .. workerCount - 1, one worker after the other
RECURSIVE AllTaskHits(_, _, _)
AllTaskHits(H, worker, workerIds) ==
    IF workerIds = <<>> THEN <<>>
    ELSE TaskSensorHits({h \in H : worker[h] = Head(workerIds)})
           \o AllTaskHits(H, worker, Tail(workerIds))

\* the inner loop of the sensor hit report: each hit is pushed to the hits of
\* the sensor of its sensor shape, with the visitor's current generation
RECURSIVE PushHits(_, _)
PushHits(sensorArray, hits) ==
    IF hits = <<>> THEN sensorArray
    ELSE LET hit == Head(hits)
             sensorIndex == shapes[hit.sensorId].sensorIndex
             shapeRef == b2Visitor(hit.visitorId, shapes[hit.visitorId].generation)
         IN  PushHits([sensorArray EXCEPT ![sensorIndex + 1].hits = Append(@, shapeRef)],
                      Tail(hits))

\* b2Solve reports the sensor hits its workers recorded
ReportSensorHits ==
    /\ phase = "solve"
    /\ \E H \in SUBSET HitCandidates :
         \E worker \in [H -> SensorWorkers] :
            /\ sensors' = PushHits(sensors, AllTaskHits(H, worker, Ascending(SensorWorkers)))
            /\ refSensors' = PushHits(refSensors, TaskSensorHits(H))
    /\ phase' = "sensors"
    /\ UNCHANGED << shapes, bodyDisabled, eventBits, sensorBeginEvents, sensorEndEvents,
                    refBeginEvents, refEndEvents >>
    /\ UNCHANGED nonSensorVars

\* the shapes b2SensorQueryCallback can record for a sensor
Candidates(sensor) ==
    {v \in Reach[sensor.shapeId] : shapes[v].alive /\ shapes[v].enableSensorEvents}

\* what the tree queries of a pass append for a sensor when the shapes of
\* near overlap it: the resting shapes and the shapes of near in reach, each
\* with its current generation
QueryResult(sensor, near) ==
    LET found == {v \in Candidates(sensor) : v \in near \/ v \in Resting[sensor.shapeId]}
        order == Ascending(found)
    IN  [i \in 1..Len(order) |-> b2Visitor(order[i], shapes[order[i]].generation)]

\* the sensor array after b2SensorTask ran on every sensor
TaskResults(sensorArray, near, tie) ==
    [i \in 1..Len(sensorArray) |->
        SensorTaskOne(sensorArray[i], SensorOff(sensorArray[i]),
                      QueryResult(sensorArray[i], near), tie)]

\* the sensor indices [startIndex, endIndex) of the task of worker w when
\* the sensors are split at index split between the two workers
TaskRange(w, split, sensorCount) ==
    IF w = 0 THEN 0..(split - 1) ELSE split..(sensorCount - 1)

\* b2InPlaceUnion of the per-worker eventBits
UnionBits(results, split) ==
    UNION {{i \in TaskRange(w, split, Len(results)) : results[i + 1].bit} :
             w \in SensorWorkers}

\* b2OverlapSensors: the parallel b2SensorTask over all sensors, the union of
\* the event bits, and the serial merge that publishes the events
OverlapSensors ==
    /\ phase = "sensors"
    /\ phase' = "solve"
    /\ IF Len(sensors) = 0
       THEN /\ eventBits' = {}
            /\ sensorBeginEvents' = <<>>
            /\ sensorEndEvents' = <<>>
            /\ refBeginEvents' = <<>>
            /\ refEndEvents' = <<>>
            /\ UNCHANGED << sensors, refSensors >>
       ELSE \E near \in SUBSET VisitorShapeIds, tie \in Ties, split \in 0..Len(sensors) :
            \E results \in {TaskResults(sensors, near, tie)},
               refResults \in {TaskResults(refSensors, near, tie)} :
            \E after \in {[i \in 1..Len(sensors) |-> results[i].sensor]},
               refAfter \in {[i \in 1..Len(sensors) |-> refResults[i].sensor]},
               bits \in {UnionBits(results, split)},
               refBits \in {UnionBits(refResults, Len(sensors))} :
            \E ev \in {PublishEvents(after, bits, 0, NoEvents)},
               refEv \in {PublishEvents(refAfter, refBits, 0, NoEvents)} :
                /\ sensors' = after
                /\ eventBits' = bits
                /\ sensorBeginEvents' = ev.begin
                /\ sensorEndEvents' = ev.end
                /\ refSensors' = refAfter
                /\ refBeginEvents' = refEv.begin
                /\ refEndEvents' = refEv.end
    /\ UNCHANGED << shapes, bodyDisabled >>
    /\ UNCHANGED nonSensorVars

\* mutant: the end events are pushed for the entries of overlaps1
DestroyEventsStale(sensor) ==
    [i \in 1..Len(sensor.overlaps1) |-> SensorEvent(sensor.shapeId, sensor.overlaps1[i])]

\* the end events b2DestroySensor pushes: one per entry of overlaps2
DestroyEvents(sensor) ==
    [i \in 1..Len(sensor.overlaps2) |-> SensorEvent(sensor.shapeId, sensor.overlaps2[i])]

\* mutant: the removal never reports a moved element
RemoveSwapNoMove(sensorArray, index) ==
    LET last == Len(sensorArray) - 1
    IN  IF index = last
        THEN [array |-> SubSeq(sensorArray, 1, last), movedIndex |-> B2_NULL_INDEX]
        ELSE [array |-> SubSeq([sensorArray EXCEPT ![index + 1] = sensorArray[last + 1]], 1, last),
              movedIndex |-> B2_NULL_INDEX]

\* b2SensorArray_RemoveSwap: the last element takes the place of the removed one
RemoveSwap(sensorArray, index) ==
    LET last == Len(sensorArray) - 1
    IN  IF index = last
        THEN [array |-> SubSeq(sensorArray, 1, last), movedIndex |-> B2_NULL_INDEX]
        ELSE [array |-> SubSeq([sensorArray EXCEPT ![index + 1] = sensorArray[last + 1]], 1, last),
              movedIndex |-> last]

\* b2DestroySensor for the sensor of sensorShape, called while the shape is
\* destroyed
DestroySensor(sensorShape) ==
    /\ sensorShape \in SensorShapeIds
    /\ shapes[sensorShape].alive
    /\ LET sensorIndex == shapes[sensorShape].sensorIndex
           sensor == sensors[sensorIndex + 1]
           removed == RemoveSwap(sensors, sensorIndex)
           refRemoved == RemoveSwap(refSensors, sensorIndex)
           ends == DestroyEvents(sensor)
           freed == [shapes EXCEPT ![sensorShape].alive = FALSE]
       IN  /\ sensorEndEvents' = sensorEndEvents \o ends
           /\ sensors' = removed.array
           /\ shapes' = IF removed.movedIndex # B2_NULL_INDEX
                        THEN [freed EXCEPT ![removed.array[sensorIndex + 1].shapeId].sensorIndex
                                             = sensorIndex]
                        ELSE freed
           /\ refEndEvents' = refEndEvents \o DestroyEvents(refSensors[sensorIndex + 1])
           /\ refSensors' = refRemoved.array
    /\ UNCHANGED << phase, bodyDisabled, eventBits, sensorBeginEvents, refBeginEvents >>
    /\ UNCHANGED nonSensorVars

\* the user turns the sensor events of a sensor shape on or off
EnableSensorEvents(sensorShape, flag) ==
    /\ sensorShape \in ToggledShapeIds
    /\ shapes[sensorShape].alive
    /\ shapes[sensorShape].enableSensorEvents # flag
    /\ shapes' = [shapes EXCEPT ![sensorShape].enableSensorEvents = flag]
    /\ UNCHANGED << phase, bodyDisabled, sensors, eventBits, sensorBeginEvents,
                    sensorEndEvents, refSensors, refBeginEvents, refEndEvents >>
    /\ UNCHANGED nonSensorVars

\* the user disables or enables the body of the sensors
SetBodyDisabled(flag) ==
    /\ bodyDisabled # flag
    /\ bodyDisabled' = flag
    /\ UNCHANGED << phase, shapes, sensors, eventBits, sensorBeginEvents,
                    sensorEndEvents, refSensors, refBeginEvents, refEndEvents >>
    /\ UNCHANGED nonSensorVars

\* the user destroys a visitor shape
DestroyVisitor(shapeId) ==
    /\ shapeId \in ReusedShapeIds
    /\ shapes[shapeId].alive
    /\ shapes[shapeId].generation < MaxGeneration
    /\ shapes' = [shapes EXCEPT ![shapeId].alive = FALSE]
    /\ UNCHANGED << phase, bodyDisabled, sensors, eventBits, sensorBeginEvents,
                    sensorEndEvents, refSensors, refBeginEvents, refEndEvents >>
    /\ UNCHANGED nonSensorVars

\* the user creates a shape in a freed slot: same shapeId, next generation
CreateVisitor(shapeId) ==
    /\ shapeId \in ReusedShapeIds
    /\ ~shapes[shapeId].alive
    /\ shapes[shapeId].generation < MaxGeneration
    /\ shapes' = [shapes EXCEPT ![shapeId].alive = TRUE, ![shapeId].generation = @ + 1]
    /\ UNCHANGED << phase, bodyDisabled, sensors, eventBits, sensorBeginEvents,
                    sensorEndEvents, refSensors, refBeginEvents, refEndEvents >>
    /\ UNCHANGED nonSensorVars

SensorNext ==
    \/ ReportSensorHits
    \/ OverlapSensors
    \/ \E s \in SensorShapeIds : DestroySensor(s)
    \/ \E s \in ToggledShapeIds, flag \in BOOLEAN : EnableSensorEvents(s, flag)
    \/ \E flag \in BOOLEAN : SetBodyDisabled(flag)
    \/ \E v \in ReusedShapeIds : DestroyVisitor(v)
    \/ \E v \in ReusedShapeIds : CreateVisitor(v)


(***************************************************************************)
(* Continuous collision of one fast body: b2SolveContinuous and its query  *)
(* callback.  A fraction f of the sweep is the integer f * FractionSteps.  *)
(***************************************************************************)

\* struct b2ContinuousContext after "context = { 0 }; context.fraction = 1.0f"
NewContext ==
    [fraction |-> FractionSteps, sensorHits |-> << >>, sensorFractions |-> << >>,
     sensorCount |-> 0]

\* the fractions b2TimeOfImpact can report
Fractions == 0..FractionSteps

\* mutant: the sensor branch stores a hit without looking at sensorCount
SensorAcceptedUnbounded(fraction, context) ==
    fraction <= context.fraction

\* the test of the sensor branch of b2ContinuousQueryCallback
SensorAccepted(fraction, context) ==
    /\ fraction <= context.fraction
    /\ context.sensorCount < B2_MAX_CONTINUOUS_SENSOR_HITS

\* mutant: a solid hit is taken without the lower bound on its fraction
SolidHitAtZero(fraction, context) ==
    fraction < context.fraction

\* the test of the solid branch, used for the shape and for its core circle
SolidHit(fraction, context) ==
    0 < fraction /\ fraction < context.fraction

\* b2ContinuousQueryCallback for a shape that passed the filters: fraction is
\* the output of b2TimeOfImpact for the shape, coreFraction the output for the
\* core circle of the fast shape, preSolve the answer of the pre-solve
\* callback.  The result is the context and the b2_hadTimeOfImpact flag.
ContinuousQueryCallback(context, had, shapeId, isSensor, fraction, coreFraction, preSolve) ==
    IF isSensor
    THEN [context |->
            IF SensorAccepted(fraction, context)
            THEN [context EXCEPT
                    !.sensorHits = Append(@, shapeId),
                    !.sensorFractions = Append(@, fraction),
                    !.sensorCount = @ + 1]
            ELSE context,
          hadTimeOfImpact |-> had]
    ELSE LET first == SolidHit(fraction, context)
             core == ~first /\ fraction = 0 /\ SolidHit(coreFraction, context)
             hitFraction == IF first THEN fraction
                            ELSE IF core THEN coreFraction ELSE context.fraction
             didHit == (first \/ core) /\ preSolve
         IN  IF didHit
             THEN [context |-> [context EXCEPT !.fraction = hitFraction],
                   hadTimeOfImpact |-> TRUE]
             ELSE [context |-> context, hadTimeOfImpact |-> had]

\* mutant: every buffered sensor hit is pushed
PushedSensorHitsAll(context) == SubSeq(context.sensorHits, 1, context.sensorCount)

\* the loop at the end of b2SolveContinuous: the hits of the context that are
\* sooner than the solid hit
PushedSensorHits(context) ==
    LET RECURSIVE Push(_)
        Push(i) ==
            IF i > context.sensorCount THEN << >>
            ELSE IF context.sensorFractions[i] < context.fraction
                 THEN << context.sensorHits[i] >> \o Push(i + 1)
                 ELSE Push(i + 1)
    IN  Push(1)

\* the record of a visited candidate
Candidate(shapeId, passes, isSensor, fraction) ==
    [shapeId |-> shapeId, passes |-> passes, isSensor |-> isSensor, fraction |-> fraction]

\* no continuous collision is running
CcdRest ==
    ccd = [pc |-> "rest", context |-> NewContext, hadTimeOfImpact |-> FALSE,
           visited |-> << >>, budget |-> 0, sensorHits |-> << >>]

\* the fraction the k-th shape of a run of sensor shapes reports
RunFraction(k) == (k % FractionSteps) + 1

\* the sweep after n sensor shapes in a row passed the filters, none of them
\* later than the end of the sweep
AfterSensorRun(n) ==
    [pc |-> "query",
     context |-> [fraction |-> FractionSteps,
                  sensorHits |-> [k \in 1..n |-> k],
                  sensorFractions |-> [k \in 1..n |-> RunFraction(k)],
                  sensorCount |-> n],
     hadTimeOfImpact |-> FALSE,
     visited |-> [k \in 1..n |-> Candidate(k, TRUE, TRUE, RunFraction(k))],
     budget |-> MaxCandidates,
     sensorHits |-> << >>]

\* b2SolveContinuous enters the tree queries with a fresh context, or is met
\* after a run of sensor shapes that nearly fills the buffer
CcdInit ==
    ccd \in {AfterSensorRun(0), AfterSensorRun(B2_MAX_CONTINUOUS_SENSOR_HITS - 1)}

\* a tree query hands the next shape to b2ContinuousQueryCallback; a shape
\* that fails a filter returns early and leaves the context alone
QueryCallback ==
    /\ ccd.pc = "query"
    /\ ccd.budget > 0
    /\ \E passes \in BOOLEAN, isSensor \in BOOLEAN, fraction \in Fractions,
          coreFraction \in Fractions, preSolve \in BOOLEAN :
          /\ ~passes => (isSensor /\ fraction = 0)
          /\ (isSensor \/ fraction # 0) => coreFraction = 0
          /\ isSensor => preSolve
          /\ LET shapeId == Len(ccd.visited) + 1
                 r == IF passes
                      THEN ContinuousQueryCallback(ccd.context, ccd.hadTimeOfImpact, shapeId,
                                                   isSensor, fraction, coreFraction, preSolve)
                      ELSE [context |-> ccd.context, hadTimeOfImpact |-> ccd.hadTimeOfImpact]
             IN  ccd' = [ccd EXCEPT
                           !.context = r.context,
                           !.hadTimeOfImpact = r.hadTimeOfImpact,
                           !.visited = Append(@, Candidate(shapeId, passes, isSensor, fraction)),
                           !.budget = @ - 1]
    /\ UNCHANGED nonCcdVars

\* the queries are over: the sensor hits go to the task context
PushSensorHits ==
    /\ ccd.pc = "query"
    /\ ccd' = [ccd EXCEPT !.pc = "done", !.sensorHits = PushedSensorHits(ccd.context)]
    /\ UNCHANGED nonCcdVars

CcdNext ==
    \/ QueryCallback
    \/ PushSensorHits


(***************************************************************************)
(* b2Solve around the solver stages: the arena items, the joint bits the   *)
(* workers set, b2FinalizeBodiesTask, the serial reports, the bullet task  *)
(* and the island sleep.  The bodies of the model are the bodies of        *)
(* interest among the awake bodies; they lie in different ranges of the    *)
(* finalize task, so any worker can finalize any of them in any order.     *)
(* A transform is the fraction of the sweep the body stands at, a sleep    *)
(* time is a number of time steps.                                         *)
(***************************************************************************)

StepWorkers == 0..(MaxStepWorkers - 1)

\* a body of the awake set: sleepy is "sleep is enabled for the body and its
\* sleep velocity is at most its threshold", fast is
\* maxVelocity * timeStep > 0.5f * sim->minExtent, splitting is
\* island->constraintRemoveCount > 0, islandId is the local index of its island.
\* escapes has one entry per shape of the body, in list order: whether the
\* AABB of the shape at the end of the step lies outside its fat AABB.
b2Body(sleepy, sleepTime, fast, isBullet, islandId, splitting) ==
    [sleepy |-> sleepy, sleepTime |-> sleepTime, fast |-> fast, isBullet |-> isBullet,
     islandId |-> islandId, splitting |-> splitting,
     type |-> "dynamicBody", escapes |-> << FALSE >>]

SlowBody(islandId) == b2Body(FALSE, 0, FALSE, FALSE, islandId, FALSE)
FastBody(isBullet, islandId) == b2Body(FALSE, 0, TRUE, isBullet, islandId, FALSE)
SleepyBody(sleepTime, islandId, splitting) ==
    b2Body(TRUE, sleepTime, FALSE, FALSE, islandId, splitting)

\* the worlds b2Solve is called on: bodies by sim index, awake joints,
\* world->enableSleep
\* enableContinuous is world->enableContinuous, userTreeTask is
\* world->userTreeTask != NULL, hitCount the contacts that report a hit
\* event, next the worlds b2Solve is called on after this call returned
StepInput(bodies, jointCount, enableSleep) ==
    [bodies |-> bodies, jointCount |-> jointCount, enableSleep |-> enableSleep,
     enableContinuous |-> TRUE, userTreeTask |-> TRUE, hitCount |-> 0, next |-> {}]

\* the shapes of a body, by whether they escape their fat AABB
Shapes(body, escapes) == [body EXCEPT !.escapes = escapes]

\* three calls of b2Solve on a world of two bodies: both fast, then both
\* slow, then both fast with the bullet flags exchanged
ThirdStep ==
    [StepInput(<< Shapes(FastBody(FALSE, 0), << FALSE, FALSE >>),
                  Shapes(FastBody(TRUE, 0), << TRUE >>) >>, 0, TRUE)
        EXCEPT !.userTreeTask = FALSE]
SecondStep ==
    [StepInput(<< Shapes(b2Body(FALSE, 0, FALSE, TRUE, 0, FALSE), << FALSE, TRUE >>),
                  Shapes(SlowBody(0), << TRUE >>) >>, 0, TRUE)
        EXCEPT !.next = {ThirdStep}]
FirstStep ==
    [StepInput(<< Shapes(FastBody(TRUE, 0), << TRUE, TRUE >>),
                  Shapes(FastBody(FALSE, 0), << TRUE >>) >>, 0, TRUE)
        EXCEPT !.next = {SecondStep}, !.hitCount = 1]

\* a world whose awake set is empty
NoBodies(userTreeTask) ==
    [StepInput(<< >>, 0, TRUE) EXCEPT !.userTreeTask = userTreeTask]

\* two bodies of one island that fall asleep in the step, and the calls of
\* b2Solve on the world they leave
LastAwake ==
    [StepInput(<< SleepyBody(2, 0, FALSE), Shapes(SleepyBody(1, 0, FALSE), << TRUE >>) >>,
               1, TRUE)
        EXCEPT !.next = {NoBodies(TRUE), NoBodies(FALSE)}, !.hitCount = 1]

StepInputs ==
    {NoBodies(TRUE),
     NoBodies(FALSE),
     LastAwake,
     StepInput(<< Shapes(SlowBody(0), << FALSE, TRUE >>) >>, 2, TRUE),
     StepInput(<< Shapes(FastBody(TRUE, 0), << TRUE >>),
                  Shapes(FastBody(FALSE, 1), << TRUE, FALSE >>),
                  FastBody(TRUE, 2) >>, 0, TRUE),
     \* world sleeping is disabled
     StepInput(<< FastBody(TRUE, 0), Shapes(SleepyBody(3, 1, TRUE), << TRUE >>),
                  FastBody(FALSE, 0) >>, 1, FALSE),
     StepInput(<< SleepyBody(1, 1, TRUE), SleepyBody(1, 2, TRUE), SleepyBody(0, 0, TRUE) >>, 0, TRUE),
     StepInput(<< SleepyBody(2, 2, TRUE), SleepyBody(3, 1, TRUE),
                  Shapes(SleepyBody(2, 0, FALSE), << >>) >>, 0, TRUE),
     \* island 1 holds a body that falls asleep and a body that stays awake
     StepInput(<< SleepyBody(1, 1, TRUE), SlowBody(1), SleepyBody(1, 0, TRUE) >>, 0, TRUE),
     \* continuous collision is disabled in the world
     [StepInput(<< FastBody(TRUE, 0), FastBody(FALSE, 0) >>, 0, TRUE)
         EXCEPT !.enableContinuous = FALSE],
     \* a fast kinematic body and a fast body that is sleepy
     StepInput(<< [FastBody(TRUE, 0) EXCEPT !.type = "kinematicBody"],
                  Shapes(b2Body(TRUE, 1, TRUE, FALSE, 1, FALSE), << TRUE >>) >>, 0, TRUE),
     FirstStep}

AwakeBodyCount == Len(solve.input.bodies)
SimIndices == 0..(AwakeBodyCount - 1)
BodyAt(simIndex) == solve.input.bodies[simIndex + 1]

\* the arena items of the stage preparation, in the order b2Solve allocates them
StageItems ==
    << "contacts", "joints", "simdContactConstraints", "overflowContactConstraints",
       "stages", "bodyBlocks", "contactBlocks", "jointBlocks", "graphBlocks" >>

\* mutant: the stage array is freed before the block arrays
StageFreesStagesFirst ==
    << "stages", "graphBlocks", "jointBlocks", "contactBlocks", "bodyBlocks",
       "overflowContactConstraints", "simdContactConstraints", "joints", "contacts" >>

\* the b2FreeArenaItem calls after the finalize task, in program order
StageFrees ==
    << "graphBlocks", "jointBlocks", "contactBlocks", "bodyBlocks", "stages",
       "overflowContactConstraints", "simdContactConstraints", "joints", "contacts" >>

\* b2AllocateArenaItem for each item of a list: the arena entries in order
AllocateArenaItems(arena, items) == arena \o items

\* b2FreeArenaItem: the item leaves the arena
FreeArenaItem(arena, item) == SelectSeq(arena, LAMBDA e : e # item)

RECURSIVE FreeArenaItems(_, _)
FreeArenaItems(arena, items) ==
    IF items = << >> THEN arena
    ELSE FreeArenaItems(FreeArenaItem(arena, Head(items)), Tail(items))

\* a task context as the loop before the finalize task leaves it, the joint
\* bits as the loop before the solver stages leaves them
ClearedTaskContext ==
    [jointStateBitSet |-> {}, awakeIslandBitSet |-> {},
     splitIslandId |-> B2_NULL_INDEX, splitSleepTime |-> 0,
     enlargedSimBitSet |-> {}, sensorHits |-> << >>]

\* a body move event; the array keeps what an earlier step left in a slot
b2BodyMoveEvent(bodyId, transform) ==
    [bodyId |-> bodyId, transform |-> transform, fellAsleep |-> FALSE]
StaleEvent == b2BodyMoveEvent(B2_NULL_INDEX, 0)

\* bulletBodyCount is 0 and no bullet array is allocated
NoBullets == [bulletBodyCount |-> 0, bulletBodies |-> << >>]

\* the call of b2Solve on the world inp; sweeps counts the calls of
\* b2SolveContinuous per body, finalizedBy is the threadIndex of the finalize
\* task that took the body, asserts holds the assertions that failed
SolveCall(inp, asserts) ==
    [pc |-> "enter", input |-> inp, log |-> << >>,
     allocated |-> << >>, freed |-> << >>, finalized |-> {}, swept |-> {},
     storing |-> [w \in StepWorkers |-> << >>],
     sweeps |-> [i \in 0..(Len(inp.bodies) - 1) |-> 0],
     finalizedBy |-> [i \in 0..(Len(inp.bodies) - 1) |-> B2_NULL_INDEX],
     asserts |-> asserts]

\* a world that was stepped before: no shape is enlarged, the event arrays
\* are cleared, the tree rebuild of the collide phase may be pending
SteppedWorld(inp) ==
    [taskContexts |-> [w \in StepWorkers |-> ClearedTaskContext],
     arena |-> << >>,
     bodyMoveEvents |-> << >>,
     jointEvents |-> << >>,
     contactHitEvents |-> << >>,
     splitIslandId |-> B2_NULL_INDEX,
     sims |-> [i \in 0..(Len(inp.bodies) - 1) |->
                 [transform |-> 0, isFast |-> FALSE, hadTimeOfImpact |-> FALSE,
                  enlargeBounds |-> FALSE]],
     enlargedAABB |-> [i \in 0..(Len(inp.bodies) - 1) |->
                         [k \in DOMAIN inp.bodies[i + 1].escapes |-> FALSE]],
     sleepTime |-> [i \in 0..(Len(inp.bodies) - 1) |-> inp.bodies[i + 1].sleepTime],
     sleepCalls |-> << >>,
     stepIndex |-> 0,
     userTreeTask |-> inp.userTreeTask,
     activeTaskCount |-> IF inp.userTreeTask THEN 1 ELSE 0]

StepRest ==
    /\ solve = [SolveCall(StepInput(<< >>, 0, FALSE), {}) EXCEPT !.pc = "rest"]
    /\ world = SteppedWorld(StepInput(<< >>, 0, FALSE))
    /\ stepContext = NoBullets

\* the world at the call of b2Solve
StepInit ==
    /\ \E inp \in StepInputs :
          /\ solve = SolveCall(inp, {})
          /\ world = SteppedWorld(inp)
    /\ stepContext = NoBullets

\* mutant: the bullet task runs right after the finalize task
PhaseSequenceBulletsFirst ==
    << "finalize", "bullets", "freeBullets", "jointEvents", "hitEvents", "refit",
       "sleep", "return" >>

\* the blocks of b2Solve from the finalize task on, in program order
PhaseSequence ==
    << "finalize", "jointEvents", "hitEvents", "refit", "bullets", "freeBullets",
       "sleep", "return" >>

\* the block that follows block pc
AfterPhase(pc) ==
    PhaseSequence[(CHOOSE k \in 1..Len(PhaseSequence) : PhaseSequence[k] = pc) + 1]

\* mutant: the tree task is left pending
FinishTreeTaskNever(w) == w

\* finishTaskFcn for the tree rebuild when one is pending
FinishTreeTask(w) ==
    IF w.userTreeTask
    THEN [w EXCEPT !.userTreeTask = FALSE, !.activeTaskCount = @ - 1]
    ELSE w

\* b2Solve with no awake body returns at once
SolveNothing ==
    /\ solve.pc = "enter"
    /\ AwakeBodyCount = 0
    /\ solve' = [solve EXCEPT !.pc = "return"]
    /\ world' = FinishTreeTask([world EXCEPT !.stepIndex = @ + 1])
    /\ UNCHANGED stepContext
    /\ UNCHANGED nonStepVars

\* b2Solve up to the dispatch of the solver stages: the bullet array, the
\* stage items, the resized move event array and the cleared joint bits
PrepareStages ==
    /\ solve.pc = "enter"
    /\ AwakeBodyCount > 0
    /\ solve' = [solve EXCEPT
                   !.pc = "solve",
                   !.allocated = @ \o << "bulletBodies" >> \o StageItems]
    /\ world' = [world EXCEPT
                   !.stepIndex = @ + 1,
                   !.arena = AllocateArenaItems(AllocateArenaItems(@, << "bulletBodies" >>),
                                                StageItems),
                   !.bodyMoveEvents = [i \in SimIndices |-> StaleEvent],
                   !.taskContexts = [w \in StepWorkers |->
                                        [@[w] EXCEPT !.jointStateBitSet = {}]]]
    \* awakeBodyCount entries of arena memory; B2_NULL_INDEX marks an entry
    \* that was not written yet
    /\ stepContext' = [bulletBodyCount |-> 0,
                       bulletBodies |-> [k \in 1..AwakeBodyCount |-> B2_NULL_INDEX]]
    /\ UNCHANGED nonStepVars

\* b2SolveJointsTask on worker workerIndex in a substep with bias: the joint
\* exceeds its threshold and its bit is not yet set in the worker's bit set
SolveJointsTask(workerIndex, jointId) ==
    /\ solve.pc = "solve"
    /\ jointId \notin world.taskContexts[workerIndex].jointStateBitSet
    /\ world' = [world EXCEPT
                   !.taskContexts[workerIndex].jointStateBitSet = @ \cup {jointId}]
    /\ UNCHANGED << solve, stepContext >>
    /\ UNCHANGED nonStepVars

\* the island split is finished and the solver stages are joined; b2Solve
\* prepares the task contexts and enqueues the finalize task
StartFinalize ==
    /\ solve.pc = "solve"
    /\ solve' = [solve EXCEPT !.pc = "finalize", !.log = Append(@, "FinalizeBodies")]
    /\ world' = [world EXCEPT
                   !.splitIslandId = B2_NULL_INDEX,
                   !.taskContexts = [w \in StepWorkers |->
                        [ClearedTaskContext EXCEPT
                           !.jointStateBitSet = world.taskContexts[w].jointStateBitSet]]]
    /\ UNCHANGED stepContext
    /\ UNCHANGED nonStepVars

\* mutant: the time of impact moves the body and not its move event
SolveContinuousNoEvent(w, simIndex, fraction) ==
    IF fraction < FractionSteps
    THEN [w EXCEPT
            !.sims[simIndex].transform = fraction,
            !.sims[simIndex].hadTimeOfImpact = TRUE]
    ELSE w

\* b2SolveContinuous for the body at simIndex, fraction the fraction its
\* queries commit: the body and its move event after the sweep
SolveContinuous(w, simIndex, fraction) ==
    IF fraction < FractionSteps
    THEN [w EXCEPT
            !.sims[simIndex].transform = fraction,
            !.sims[simIndex].hadTimeOfImpact = TRUE,
            !.bodyMoveEvents[simIndex].transform = fraction]
    ELSE w

\* Prepare AABBs for broad-phase in b2SolveContinuous: a shape that left its
\* fat AABB is flagged and so is the body sim
PrepareAABBs(w, simIndex) ==
    [w EXCEPT
       !.enlargedAABB[simIndex] = [k \in DOMAIN @ |-> @[k] \/ BodyAt(simIndex).escapes[k]],
       !.sims[simIndex].enlargeBounds =
           @ \/ (\E k \in DOMAIN BodyAt(simIndex).escapes : BodyAt(simIndex).escapes[k])]

\* Push sensor hits on the task context: the sweep of every body crosses a
\* sensor at the first fraction step, which counts if the solid hit is later
SweepSensorHits(w, workerIndex, simIndex, fraction) ==
    IF 1 < fraction
    THEN [w EXCEPT !.taskContexts[workerIndex].sensorHits = Append(@, simIndex)]
    ELSE w

\* b2SolveContinuous on worker workerIndex
b2SolveContinuous(w, workerIndex, simIndex, fraction) ==
    SweepSensorHits(PrepareAABBs(SolveContinuous(w, simIndex, fraction), simIndex),
             workerIndex, simIndex, fraction)

\* the assertions that fail in a call of b2SolveContinuous
SweepAsserts(w, simIndex) ==
    IF w.sims[simIndex].isFast THEN {} ELSE {"isFast"}

\* the test of b2FinalizeBodiesTask for a body that wants to sleep in an
\* island that needs splitting
SplitReplaces(taskContext, sleepTime) ==
    sleepTime > taskContext.splitSleepTime

\* mutant: bulletBodyCount is read without the add
BulletStore(bulletBodyCount) == bulletBodyCount

\* bulletBodyCount after b2AtomicFetchAddInt( &stepContext->bulletBodyCount, 1 );
\* the value returned is the count before it
BulletFetchAdd(bulletBodyCount) == bulletBodyCount + 1

\* mutant: the body type is not tested
IsFastAnyType(body, enableContinuous) ==
    enableContinuous /\ body.fast

\* the test of the continuous branch of b2FinalizeBodiesTask
IsFast(body, enableContinuous) ==
    body.type = "dynamicBody" /\ enableContinuous /\ body.fast

\* mutant: a fast body is flagged when one of its shapes is enlarged
EnlargedBitIfEscaped(isFast, escapes) ==
    \E k \in DOMAIN escapes : escapes[k]

\* whether the shape loop of b2FinalizeBodiesTask sets the body's bit in
\* the worker's enlargedSimBitSet
EnlargedBit(isFast, escapes) ==
    \E k \in DOMAIN escapes : isFast \/ escapes[k]

\* body->sleepTime < B2_TIME_TO_SLEEP
KeepsAwake(sleepTime) == sleepTime < B2_TIME_TO_SLEEP

\* b2FinalizeBodiesTask for one body on worker workerIndex
FinalizeBody(simIndex, workerIndex) ==
    /\ solve.pc = "finalize"
    /\ simIndex \in SimIndices \ solve.finalized
    /\ solve.storing[workerIndex] = << >>
    /\ \E fraction \in 1..FractionSteps :
          LET body == BodyAt(simIndex)
              notSleepy == ~solve.input.enableSleep \/ ~body.sleepy
              isFast == notSleepy /\ IsFast(body, solve.input.enableContinuous)
              inline == isFast /\ ~body.isBullet
              sleepTime == IF notSleepy THEN 0 ELSE world.sleepTime[simIndex] + 1
              w1 == [world EXCEPT
                        !.sims[simIndex].transform = FractionSteps,
                        !.sims[simIndex].isFast = isFast,
                        !.sims[simIndex].hadTimeOfImpact = FALSE,
                        !.bodyMoveEvents[simIndex] = b2BodyMoveEvent(simIndex, FractionSteps),
                        !.sleepTime[simIndex] = sleepTime]
              w2 == IF inline THEN b2SolveContinuous(w1, workerIndex, simIndex, fraction)
                    ELSE w1
              taskContext == w2.taskContexts[workerIndex]
              w3 == [w2 EXCEPT
                       !.taskContexts[workerIndex] =
                           IF KeepsAwake(sleepTime)
                           THEN [taskContext EXCEPT
                                   !.awakeIslandBitSet = @ \cup {body.islandId}]
                           ELSE IF body.splitting /\ SplitReplaces(taskContext, sleepTime)
                                THEN [taskContext EXCEPT
                                        !.splitIslandId = body.islandId,
                                        !.splitSleepTime = sleepTime]
                                ELSE taskContext]
              \* Update shapes AABBs
              stale == ~isFast /\ \E k \in DOMAIN w3.enlargedAABB[simIndex] :
                                      w3.enlargedAABB[simIndex][k]
              asserts == (IF inline THEN SweepAsserts(w1, simIndex) ELSE {})
                            \cup (IF stale THEN {"enlargedAABB"} ELSE {})
          IN  /\ ~inline => fraction = FractionSteps
              /\ world' = [w3 EXCEPT
                    !.enlargedAABB[simIndex] =
                        IF isFast THEN @ ELSE [k \in DOMAIN @ |-> @[k] \/ body.escapes[k]],
                    !.taskContexts[workerIndex].enlargedSimBitSet =
                        IF EnlargedBit(isFast, body.escapes) THEN @ \cup {simIndex} ELSE @]
              /\ IF isFast /\ body.isBullet
                 THEN /\ stepContext' = [stepContext EXCEPT
                                           !.bulletBodyCount = BulletFetchAdd(@)]
                      /\ solve' = [solve EXCEPT
                                     !.finalized = @ \cup {simIndex},
                                     !.finalizedBy[simIndex] = workerIndex,
                                     !.asserts = @ \cup asserts,
                                     !.storing[workerIndex] =
                                         << stepContext.bulletBodyCount, simIndex >>]
                 ELSE /\ stepContext' = stepContext
                      /\ solve' = [solve EXCEPT
                                     !.finalized = @ \cup {simIndex},
                                     !.finalizedBy[simIndex] = workerIndex,
                                     !.asserts = @ \cup asserts,
                                     !.sweeps[simIndex] = IF inline THEN @ + 1 ELSE @]
    /\ UNCHANGED nonStepVars

\* stepContext->bulletBodies[bulletIndex] = simIndex on worker workerIndex,
\* with the bulletIndex its fetch-add returned
StoreBullet(workerIndex) ==
    /\ solve.pc = "finalize"
    /\ solve.storing[workerIndex] # << >>
    /\ LET bulletIndex == solve.storing[workerIndex][1]
           simIndex == solve.storing[workerIndex][2]
       IN  /\ bulletIndex + 1 \in DOMAIN stepContext.bulletBodies
           /\ stepContext' = [stepContext EXCEPT !.bulletBodies[bulletIndex + 1] = simIndex]
    /\ solve' = [solve EXCEPT !.storing[workerIndex] = << >>]
    /\ UNCHANGED world
    /\ UNCHANGED nonStepVars

\* the finalize task is joined and the stage items are freed
FinishFinalize ==
    /\ solve.pc = "finalize"
    /\ solve.finalized = SimIndices
    /\ \A w \in StepWorkers : solve.storing[w] = << >>
    /\ solve' = [solve EXCEPT !.pc = AfterPhase("finalize"), !.freed = @ \o StageFrees]
    /\ world' = [world EXCEPT !.arena = FreeArenaItems(@, StageFrees)]
    /\ UNCHANGED stepContext
    /\ UNCHANGED nonStepVars

\* the joint ids of a bit set in the order the words and bits are scanned
RECURSIVE BitsAscending(_)
BitsAscending(bits) ==
    IF bits = {} THEN << >>
    ELSE LET lowest == CHOOSE b \in bits : \A c \in bits : b <= c
         IN  << lowest >> \o BitsAscending(bits \ {lowest})

\* mutant: the events are read from the bit set of worker 0 alone
GatheredJointBitsFirst(taskContexts) ==
    taskContexts[0].jointStateBitSet

\* b2InPlaceUnion of the joint bit sets of the workers into the one of worker 0
GatheredJointBits(taskContexts) ==
    UNION {taskContexts[w].jointStateBitSet : w \in StepWorkers}

\* Report joint events
ReportJointEvents ==
    /\ solve.pc = "jointEvents"
    /\ solve' = [solve EXCEPT !.pc = AfterPhase("jointEvents"), !.log = Append(@, "JointEvents")]
    /\ \E bits \in {GatheredJointBits(world.taskContexts)} :
          world' = [world EXCEPT
                      !.taskContexts[0].jointStateBitSet = bits,
                      !.jointEvents = @ \o BitsAscending(bits)]
    /\ UNCHANGED stepContext
    /\ UNCHANGED nonStepVars

\* Report hit events: one event per contact that reports a hit
ReportHitEvents ==
    /\ solve.pc = "hitEvents"
    /\ solve' = [solve EXCEPT !.pc = AfterPhase("hitEvents"), !.log = Append(@, "HitEvents")]
    /\ world' = [world EXCEPT
                   !.contactHitEvents = @ \o [k \in 1..solve.input.hitCount |-> k - 1]]
    /\ UNCHANGED stepContext
    /\ UNCHANGED nonStepVars

\* mutant: the bodies are read from the bit set of worker 0 alone
GatheredEnlargedBitsFirst(taskContexts) ==
    taskContexts[0].enlargedSimBitSet

\* Gather bits for all sim bodies that have enlarged AABBs
GatheredEnlargedBits(taskContexts) ==
    UNION {taskContexts[w].enlargedSimBitSet : w \in StepWorkers}

\* the test of the refit loop for a body whose AABBs are not final yet
FastBullet(w, simIndex) ==
    BodyAt(simIndex).isBullet /\ w.sims[simIndex].isFast

\* the shapes of the body after b2BroadPhase_EnlargeProxy and
\* b2DynamicTree_EnlargeProxy: shape->enlargedAABB = false
ClearedShapes(flags) == [k \in DOMAIN flags |-> FALSE]

\* the tree task is finished, the enlarged bits are gathered and the
\* broad-phase proxies of the flagged bodies are enlarged serially
RefitBroadPhase ==
    /\ solve.pc = "refit"
    /\ solve' = [solve EXCEPT !.pc = AfterPhase("refit"), !.log = Append(@, "Refit")]
    /\ \E bits \in {GatheredEnlargedBits(world.taskContexts)} :
          world' = [FinishTreeTask(world) EXCEPT
                      !.taskContexts[0].enlargedSimBitSet = bits,
                      !.enlargedAABB = [i \in DOMAIN @ |->
                           IF i \in bits /\ ~FastBullet(world, i)
                           THEN ClearedShapes(@[i])
                           ELSE @[i]]]
    /\ UNCHANGED stepContext
    /\ UNCHANGED nonStepVars

\* b2BulletBodyTask for entry i of the bullet array on worker workerIndex
BulletBody(i, workerIndex) ==
    /\ solve.pc = "bullets"
    /\ i \in (1..stepContext.bulletBodyCount) \ solve.swept
    /\ stepContext.bulletBodies[i] \in SimIndices
    /\ \E fraction \in 1..FractionSteps :
          world' = b2SolveContinuous(world, workerIndex, stepContext.bulletBodies[i], fraction)
    /\ solve' = [solve EXCEPT
                   !.swept = @ \cup {i},
                   !.sweeps[stepContext.bulletBodies[i]] = @ + 1,
                   !.asserts = @ \cup SweepAsserts(world, stepContext.bulletBodies[i])]
    /\ UNCHANGED stepContext
    /\ UNCHANGED nonStepVars

\* the sim indices of the bullet array whose b2_enlargeBounds flag is set
EnlargedBullets(w, bullets) ==
    {bullets[i] : i \in {k \in DOMAIN bullets : w.sims[bullets[k]].enlargeBounds}}

\* with bullets: the bullet task is joined and the proxies of the bullets are
\* enlarged serially; without: the stage is skipped
FinishBullets ==
    /\ solve.pc = "bullets"
    /\ solve.swept = 1..stepContext.bulletBodyCount
    /\ solve' = [solve EXCEPT
                   !.pc = AfterPhase("bullets"),
                   !.log = IF stepContext.bulletBodyCount > 0 THEN Append(@, "Bullets") ELSE @]
    /\ \E enlarged \in {EnlargedBullets(world, SubSeq(stepContext.bulletBodies, 1,
                                                       stepContext.bulletBodyCount))} :
          world' = [world EXCEPT
                      !.sims = [i \in DOMAIN @ |->
                                  IF i \in enlarged
                                  THEN [@[i] EXCEPT !.enlargeBounds = FALSE]
                                  ELSE @[i]],
                      !.enlargedAABB = [i \in DOMAIN @ |->
                                  IF i \in enlarged THEN ClearedShapes(@[i]) ELSE @[i]]]
    /\ UNCHANGED stepContext
    /\ UNCHANGED nonStepVars

\* the bullet array is freed and the count is reset; Report sensor hits
FreeBulletBodies ==
    /\ solve.pc = "freeBullets"
    /\ solve' = [solve EXCEPT
                   !.pc = AfterPhase("freeBullets"),
                   !.freed = Append(@, "bulletBodies"),
                   !.log = Append(@, "SensorHits")]
    /\ world' = [world EXCEPT !.arena = FreeArenaItem(@, "bulletBodies")]
    /\ stepContext' = NoBullets
    /\ UNCHANGED nonStepVars

\* Collect split island candidate for the next time step
SplitCandidate(taskContexts, splitIslandId) ==
    LET RECURSIVE Collect(_, _, _)
        Collect(i, islandId, splitSleepTimer) ==
            IF i = MaxStepWorkers THEN islandId
            ELSE LET taskContext == taskContexts[i]
                 IN  IF /\ taskContext.splitIslandId # B2_NULL_INDEX
                        /\ taskContext.splitSleepTime >= splitSleepTimer
                     THEN IF /\ taskContext.splitSleepTime = splitSleepTimer
                             /\ taskContext.splitIslandId < islandId
                          THEN Collect(i + 1, islandId, splitSleepTimer)
                          ELSE Collect(i + 1, taskContext.splitIslandId,
                                       taskContext.splitSleepTime)
                     ELSE Collect(i + 1, islandId, splitSleepTimer)
    IN  Collect(0, splitIslandId, 0)

\* awakeSet->islandSims.count: every island of the awake set holds a body
IslandCount ==
    Cardinality({BodyAt(i).islandId : i \in SimIndices})

\* mutant: the islands are visited in ascending order
SleepLoopAscending(awakeIslandBitSet, count) ==
    LET RECURSIVE Visit(_)
        Visit(islandIndex) ==
            IF islandIndex >= count THEN << >>
            ELSE (IF islandIndex \in awakeIslandBitSet THEN << >> ELSE << islandIndex >>)
                    \o Visit(islandIndex + 1)
    IN  Visit(0)

\* the islands b2TrySleepIsland is called for, in the order of the calls
SleepLoop(awakeIslandBitSet, count) ==
    LET RECURSIVE Visit(_)
        Visit(islandIndex) ==
            IF islandIndex < 0 THEN << >>
            ELSE (IF islandIndex \in awakeIslandBitSet THEN << >> ELSE << islandIndex >>)
                    \o Visit(islandIndex - 1)
    IN  Visit(count - 1)

\* Island sleeping, when the world enables sleep, and the return of b2Solve
IslandSleep ==
    /\ solve.pc = "sleep"
    /\ solve' = [solve EXCEPT
                   !.pc = AfterPhase("sleep"),
                   !.log = IF solve.input.enableSleep THEN Append(@, "IslandSleep") ELSE @]
    /\ world' =
          IF solve.input.enableSleep
          THEN LET awake == UNION {world.taskContexts[w].awakeIslandBitSet : w \in StepWorkers}
               IN  [world EXCEPT
                      !.splitIslandId = SplitCandidate(world.taskContexts, world.splitIslandId),
                      !.taskContexts[0].awakeIslandBitSet = awake,
                      !.sleepCalls = @ \o SleepLoop(awake, IslandCount)]
          ELSE world
    /\ UNCHANGED stepContext
    /\ UNCHANGED nonStepVars

\* b2Solve is called again on the world it left: on the same bodies, which
\* the caller changed, when no island went to sleep, and on an empty awake
\* set when every island went to sleep
SolveAgain ==
    /\ solve.pc = "return"
    /\ AwakeBodyCount > 0
    /\ \E inp \in solve.input.next :
          /\ IF inp.bodies = << >>
             THEN Len(world.sleepCalls) = IslandCount
             ELSE world.sleepCalls = << >>
          /\ solve' = SolveCall(inp, solve.asserts)
          /\ world' = [world EXCEPT
                         !.sims = IF inp.bodies = << >> THEN << >> ELSE @,
                         !.enlargedAABB = IF inp.bodies = << >> THEN << >> ELSE @,
                         !.sleepTime = IF inp.bodies = << >> THEN << >> ELSE @,
                         !.sleepCalls = << >>,
                         !.userTreeTask = inp.userTreeTask,
                         !.activeTaskCount = IF inp.userTreeTask THEN 1 ELSE 0]
    /\ UNCHANGED stepContext
    /\ UNCHANGED nonStepVars

StepNext ==
    \/ SolveNothing
    \/ PrepareStages
    \/ \E w \in StepWorkers, j \in 0..(solve.input.jointCount - 1) :
          SolveJointsTask(w, j)
    \/ StartFinalize
    \/ \E i \in SimIndices, w \in StepWorkers : FinalizeBody(i, w)
    \/ \E w \in StepWorkers : StoreBullet(w)
    \/ FinishFinalize
    \/ ReportJointEvents
    \/ ReportHitEvents
    \/ RefitBroadPhase
    \/ \E i \in 1..stepContext.bulletBodyCount, w \in StepWorkers : BulletBody(i, w)
    \/ FinishBullets
    \/ FreeBulletBodies
    \/ IslandSleep
    \/ SolveAgain

(***************************************************************************)
(* Stage preparation: block sizes, block counts and the blocks written.    *)
(***************************************************************************)

\* the conversion (int16_t)x of a block's element count
Int16(x) == ((x + 32768) % 65536) - 32768

BodyBlockSize(awakeBodyCount, maxBlockCount) ==
    IF awakeBodyCount > 32 * maxBlockCount
    THEN awakeBodyCount \div maxBlockCount
    ELSE 32

\* colorContactBlockSizes[c] and colorJointBlockSizes[c]
ColorBlockSizeCeil(count, maxBlockCount) ==
    LET ceil == (count + maxBlockCount - 1) \div maxBlockCount
    IN IF count > 0
       THEN (IF ceil > blocksPerWorker THEN ceil ELSE blocksPerWorker)
       ELSE 0
ColorBlockSize(count, maxBlockCount) ==
    IF count > blocksPerWorker * maxBlockCount
    THEN count \div maxBlockCount
    ELSE IF count > 0 THEN blocksPerWorker ELSE 0

\* contactBlockSize and jointBlockSize of the prepare / store stages
FlatBlockSize(count, maxBlockCount) ==
    IF count > blocksPerWorker * maxBlockCount
    THEN count \div maxBlockCount
    ELSE blocksPerWorker

BlockFamilies == {"body", "joint", "contact", "graphJoint", "graphContact"}

\* the size a family's blocks start from
BaseBlockSize(family) == IF family = "body" THEN 32 ELSE blocksPerWorker

BlockSizeOf(family, count, maxBlockCount) ==
    CASE family = "body" -> BodyBlockSize(count, maxBlockCount)
      [] family \in {"joint", "contact"} -> FlatBlockSize(count, maxBlockCount)
      [] OTHER -> ColorBlockSize(count, maxBlockCount)

BlockCountOf(family, count, maxBlockCount) ==
    CASE family = "body" -> BodyBlockCount(count, maxBlockCount)
      [] family \in {"joint", "contact"} -> FlatBlockCount(count, maxBlockCount)
      [] OTHER -> ColorBlockCount(count, maxBlockCount)

b2SolverBlock(startIndex, count, blockType) ==
    [startIndex |-> startIndex, count |-> count, blockType |-> blockType]

\* the loop that writes a family's blocks, and the count of the last block
\* written after it
PrepareBlocks(total, blockSize, blockCount, blockType) ==
    [i \in 1..blockCount |->
        b2SolverBlock((i - 1) * blockSize,
                      IF i = blockCount
                      THEN Int16(total - (blockCount - 1) * blockSize)
                      ELSE Int16(blockSize),
                      blockType)]

\* element counts above the thresholds of one, two and three workers, and
\* around the largest block a 16-bit count can hold
LargeCounts == {129, 257, 385, 1000, 131068, 131069, 140000, 262136, 393204}

PrepInput(family, count, wc) ==
    [pc |-> "input", family |-> family, count |-> count, workerCount |-> wc,
     blockSize |-> 0, blockCount |-> 0, blocks |-> <<>>, startIndex |-> <<>>]

PrepRest == prep = [PrepInput("body", 1, 1) EXCEPT !.pc = "rest"]

\* awakeBodyCount is at least 1 when the stages are prepared; the other
\* families may be empty
PrepInit ==
    prep \in {PrepInput(family, count, wc) :
                family \in BlockFamilies,
                count \in (0..MaxPrepCount) \cup LargeCounts,
                wc \in 1..MaxPrepWorkers}
    /\ (prep.family = "body" => prep.count >= 1)

\* the block size and count of the family
ConfigureBlocks ==
    /\ prep.pc = "input"
    /\ LET maxBlockCount == blocksPerWorker * prep.workerCount
       IN prep' = [prep EXCEPT
                     !.pc = "configured",
                     !.blockSize = BlockSizeOf(prep.family, prep.count, maxBlockCount),
                     !.blockCount = BlockCountOf(prep.family, prep.count, maxBlockCount)]
    /\ UNCHANGED nonPrepVars

\* the blocks of the family
PrepareWorkBlocks ==
    /\ prep.pc = "configured"
    /\ prep' = [prep EXCEPT
                  !.pc = "prepared",
                  !.blocks = PrepareBlocks(prep.count, prep.blockSize, prep.blockCount,
                                           prep.family)]
    /\ UNCHANGED nonPrepVars

\* b2ExecuteStage on every worker of a stage over the family's blocks: the
\* block each worker starts from (element w + 1 is worker w)
StartWorkers ==
    /\ prep.pc = "prepared"
    /\ prep' = [prep EXCEPT
                  !.pc = "started",
                  !.startIndex = [w \in 1..prep.workerCount |->
                                    GetWorkerStartIndex(w - 1, prep.blockCount,
                                                        prep.workerCount)]]
    /\ UNCHANGED nonPrepVars

PrepNext == ConfigureBlocks \/ PrepareWorkBlocks \/ StartWorkers



InitMain ==
    [site |-> "PrepareJoints", i |-> 0, j |-> 0, colorIndex |-> 0, stageIndex |-> 0,
     iterStageIndex |-> 0, bodySyncIndex |-> 1, jointSyncIndex |-> 1,
     contactSyncIndex |-> 1, graphSyncIndex |-> 1, log |-> <<>>,
     published |-> <<>>]

\* the state b2Solve hands to the worker tasks
SolverInit ==
    /\ input \in Inputs
    /\ stages = BuildStages(input.awakeBodyCount, input.colorJoints, input.colorContacts,
                            input.workerCount)
    /\ blockSync = [a \in BlockArrays(stages) |->
                      [b \in 0..(ArrayBlockCount(stages, a) - 1) |-> 0]]
    /\ completionCount = [k \in 0..(Len(stages) - 1) |-> 0]
    /\ atomicSyncBits = ZeroBits
    /\ main = InitMain
    /\ wk = [w \in 0..(input.workerCount - 1) |-> IdleWorker("notStarted", ZeroBits)]
    /\ execCount = [a \in BlockArrays(stages) |->
                      [b \in 0..(ArrayBlockCount(stages, a) - 1) |-> 0]]
    /\ visitCount = [a \in BlockArrays(stages) |-> 0]
    /\ execBy = [w \in 0..(input.workerCount - 1) |-> 0]
    /\ claimKinds = {}
    /\ failedAsserts = {}

SolverNext ==
    \/ \E w \in Workers : Start(w)
    \/ MainCall
    \/ MainInlineDone
    \/ \E w \in Workers : WorkerRead(w)
    \/ \E w \in Workers : Forward(w)
    \/ \E w \in Workers : Backward(w)
    \/ \E w \in Workers : Add(w)
    \/ MainWait
    \/ MainReset
    \/ MainSignal

vars == << solverVars, sensorVars, ccdVars, stepVars, prepVars >>

Init == SolverInit /\ SensorInit /\ CcdRest /\ StepRest /\ PrepRest
Next == SolverNext
Spec == Init /\ [][Next]_vars

\* the sensor engine over the steps of a world whose solver is at rest
SensorSpecInit ==
    /\ SolverInit
    /\ input = MakeInput(1, 0, 1, 3, FALSE)
    /\ SensorInit
    /\ CcdRest
    /\ StepRest
    /\ PrepRest
SensorSpec == SensorSpecInit /\ [][SensorNext]_vars

\* the continuous collision of one fast body, the rest of the world at rest
CcdSpecInit ==
    /\ SolverInit
    /\ input = MakeInput(1, 0, 1, 3, FALSE)
    /\ SensorInit
    /\ CcdInit
    /\ StepRest
    /\ PrepRest
CcdSpec == CcdSpecInit /\ [][CcdNext]_vars

\* b2Solve around the solver stages, the stages themselves left out
StepSpecInit ==
    /\ SolverInit
    /\ input = MakeInput(1, 0, 1, 3, FALSE)
    /\ SensorInit
    /\ CcdRest
    /\ StepInit
    /\ PrepRest
StepSpec == StepSpecInit /\ [][StepNext]_vars

\* the stage preparation applied to one block family, the rest at rest
PrepSpecInit ==
    /\ SolverInit
    /\ input = MakeInput(1, 0, 1, 3, FALSE)
    /\ SensorInit
    /\ CcdRest
    /\ StepRest
    /\ PrepInit
PrepSpec == PrepSpecInit /\ [][PrepNext]_vars


\* the steps of worker w once its task has started
WorkerStep(w) ==
    /\ w \in Workers
    /\ \/ WorkerRead(w)
       \/ Forward(w)
       \/ Backward(w)
       \/ Add(w)
       \/ (w = 0 /\ (MainCall \/ MainInlineDone \/ MainWait \/ MainReset \/ MainSignal))

WorkerIds == {0, 1, 2}

\* the inputs of the fair runs: two threads over every substep count with a
\* four-block color, and two workers with threads and with an inline queue
\* over a three-block and a one-block color
LiveInputs ==
    {MakeInput(2, ss, 1, 2, FALSE) : ss \in 0..MaxSubSteps}
    \cup {MakeInput(2, 0, 33, 1, inline) : inline \in BOOLEAN}
    \cup {MakeInput(2, 1, 1, 1, TRUE)}

LiveInit == Init /\ input \in LiveInputs

\* Every started task keeps being scheduled, and the main worker's task is
\* started (b2Solve joins it with finishTaskFcn).
LiveSpec ==
    /\ LiveInit /\ [][Next]_vars
    /\ WF_vars(Start(0))
    /\ \A w \in WorkerIds : WF_vars(WorkerStep(w))

(***************************************************************************)
(* Long steps: a step of two substeps from its start, and the last two     *)
(* substeps of steps whose sync indices reach the end of their 16 bits.    *)
(* The visits and published values recorded start where the model starts.  *)
(***************************************************************************)
\* the sync indices grow by these amounts in every substep
BodySyncPerSubStep == 2
GraphSyncPerSubStep == 1 + ITERATIONS + RELAX_ITERATIONS

\* two substeps; 21846 substeps, where graphSyncIndex passes 65535 in the
\* last one; 32769 substeps, where bodySyncIndex passes 65535 in the last
\* but one.  33 bodies (two body blocks); a three-block and a one-block color
\* for the graph stages, or no constraint at all where only the body stages
\* publish
LongInputs ==
    {MakeInput(wc, 2, 33, 1, FALSE) : wc \in {1, 2}}
    \cup {MakeInput(wc, 21846, 33, 1, FALSE) : wc \in {1, 2}}
    \cup {MakeInput(wc, 32769, 33, 3, FALSE) : wc \in {1, 2}}

\* the first substep walked
StartSubStep(inp) == IF inp.subStepCount > 2 THEN inp.subStepCount - 2 ELSE 0

\* the main worker at the top of substep i, before anything of it is logged
MainAtSubStep(i) ==
    SubStepTop([InitMain EXCEPT
                  !.i = i, !.stageIndex = 2,
                  !.jointSyncIndex = 2, !.contactSyncIndex = 2,
                  !.bodySyncIndex = 1 + BodySyncPerSubStep * i,
                  !.graphSyncIndex = 1 + GraphSyncPerSubStep * i])

\* the stages of more than one block among the given types
PublishedStages(stgs, types) ==
    {k \in 0..(Len(stgs) - 1) : stgs[k + 1].type \in types /\ stgs[k + 1].blockCount > 1}

\* the value of atomicSyncBits at the top of substep i >= 1: the last value
\* published in substep i - 1, by IntegratePositions or by a Relax stage
LastPublished(stgs, i) ==
    LET ks == PublishedStages(stgs, {"IntegratePositions", "Relax"})
        k == CHOOSE x \in ks : \A y \in ks : y <= x
    IN  IF stgs[k + 1].type = "Relax"
        THEN PackSyncBits(GraphSyncPerSubStep * i, k)
        ELSE PackSyncBits(BodySyncPerSubStep * i, k)

\* the syncIndex of the blocks of array a at the top of substep i >= 1: the
\* blocks of a one-block stage are never exchanged
BlockSyncAt(stgs, a, i) ==
    IF ArrayBlockCount(stgs, a) <= 1 THEN 0
    ELSE CASE a[1] = "body" -> BodySyncPerSubStep * i
           [] a[1] = "graph" -> GraphSyncPerSubStep * i
           [] OTHER -> 1

LongInit ==
    /\ SensorInit /\ CcdRest /\ StepRest /\ PrepRest
    /\ input \in LongInputs
    /\ stages = BuildStages(input.awakeBodyCount, input.colorJoints, input.colorContacts,
                            input.workerCount)
    /\ completionCount = [k \in 0..(Len(stages) - 1) |-> 0]
    /\ execCount = [a \in BlockArrays(stages) |->
                      [b \in 0..(ArrayBlockCount(stages, a) - 1) |-> 0]]
    /\ visitCount = [a \in BlockArrays(stages) |-> 0]
    /\ execBy = [w \in 0..(input.workerCount - 1) |-> 0]
    /\ claimKinds = {}
    /\ failedAsserts = {}
    /\ LET i == StartSubStep(input)
       IN IF i = 0
          THEN /\ blockSync = [a \in BlockArrays(stages) |->
                                 [b \in 0..(ArrayBlockCount(stages, a) - 1) |-> 0]]
               /\ atomicSyncBits = ZeroBits
               /\ main = InitMain
               /\ wk = [w \in 0..(input.workerCount - 1) |->
                          IdleWorker("notStarted", ZeroBits)]
          ELSE /\ blockSync = [a \in BlockArrays(stages) |->
                                 [b \in 0..(ArrayBlockCount(stages, a) - 1) |->
                                     BlockSyncAt(stages, a, i)]]
               /\ atomicSyncBits = LastPublished(stages, i)
               /\ main = [MainAtSubStep(i) EXCEPT !.published = << atomicSyncBits >>]
               /\ wk = [w \in 0..(input.workerCount - 1) |->
                          IF w = 0 THEN IdleWorker("ready", ZeroBits)
                          ELSE IdleWorker("spin", atomicSyncBits)]

LongSpec == LongInit /\ [][Next]_vars

(***************************************************************************)
(* Properties of the solver step.                                          *)
(***************************************************************************)
MainInVisit == wk[0].pc \in {"inline", "forward", "backward", "add", "wait"}
MainBetweenVisits == wk[0].pc \in {"notStarted", "ready", "reset", "done"}
AllDone == \A w \in Workers : wk[w].pc = "done"

\* C1: in every stage visit every block of the stage has its kernel invoked
\* exactly once.  A block array has been visited visitCount times, so no block
\* ever has more invocations than visits, and whenever the main worker is
\* between two visits every block has exactly as many invocations as visits.
C1_ExactlyOnce ==
    \A a \in DOMAIN execCount : \A b \in DOMAIN execCount[a] :
        /\ execCount[a][b] <= visitCount[a]
        /\ execCount[a][b] >= visitCount[a] - 1
        /\ MainBetweenVisits => execCount[a][b] = visitCount[a]

\* the step has ended, blocks were claimed forward, stolen backward and run
\* inline, and a worker other than the main worker ran kernels
C1_Witness ==
    /\ main.site = "Done"
    /\ claimKinds = {"forward", "backward", "inline"}
    /\ \E w \in Workers : w # 0 /\ execBy[w] > 0

\* C2: a block runs only inside its own stage visit: while a kernel runs on
\* any worker the main worker is inside the visit (stage and sync index) that
\* the kernel belongs to, so the preceding visit's kernels have all ended and
\* the next visit has not begun.
C2_Barrier ==
    \A w \in Workers :
        wk[w].running # -1 =>
            /\ MainInVisit
            /\ wk[w].stage = SiteStage(main)
            /\ wk[w].syncIndex = SiteSync(main)

\* a worker that read the sync bits late is still scanning the blocks of an
\* earlier visit while a kernel of the current visit runs
C2_Witness ==
    \E w, v \in Workers :
        /\ w # 0 /\ v # w
        /\ wk[w].pc \in {"forward", "backward"}
        /\ wk[w].running = -1
        /\ << wk[w].stage, wk[w].syncIndex >> # << SiteStage(main), SiteSync(main) >>
        /\ wk[v].running # -1

\* the stage visits the main worker has made so far, in order
StageLog == SelectSeq(main.log, LAMBDA e : e.k = "stage")

IsPrefix(s, t) == Len(s) <= Len(t) /\ SubSeq(t, 1, Len(s)) = s

Visit(type, colorIndex, useBias) ==
    [k |-> "stage", type |-> type, colorIndex |-> colorIndex, useBias |-> useBias]

\* one visit per active color, ascending
ColorVisits(type, useBias) ==
    LET active == ActiveColorIndices(input.colorJoints, input.colorContacts)
    IN  [i \in 1..Len(active) |-> Visit(type, active[i] - 1, useBias)]

SubStepVisits ==
    << Visit("IntegrateVelocities", -1, FALSE) >>
    \o ColorVisits("WarmStart", FALSE)
    \o Repeat(ColorVisits("Solve", TRUE), ITERATIONS)
    \o << Visit("IntegratePositions", -1, FALSE) >>
    \o Repeat(ColorVisits("Relax", FALSE), RELAX_ITERATIONS)

StepVisits ==
    << Visit("PrepareJoints", -1, FALSE), Visit("PrepareContacts", -1, FALSE) >>
    \o Repeat(SubStepVisits, subStepCount)
    \o ColorVisits("Restitution", FALSE)
    \o << Visit("StoreImpulses", -1, FALSE) >>

\* C3: the main worker visits the stages in the order PrepareJoints,
\* PrepareContacts, per substep IntegrateVelocities, WarmStart per active color
\* ascending, ITERATIONS passes of Solve with useBias, IntegratePositions,
\* RELAX_ITERATIONS passes of Relax without useBias, then Restitution per
\* active color and StoreImpulses: the visits made so far are always a prefix
\* of that sequence, and all of it once the step has ended.
C3_StageOrder ==
    /\ IsPrefix(StageLog, StepVisits)
    /\ main.site = "Done" => StageLog = StepVisits

\* a step with a substep and two active colors has ended
C3_Witness ==
    /\ main.site = "Done"
    /\ subStepCount >= 1
    /\ activeColorCount >= 2
    /\ Len(StageLog) >= 11

TaskStarted(w) == IF w \in Workers THEN wk[w].pc # "notStarted" ELSE FALSE
TaskReturned(w) == IF w \in Workers THEN wk[w].pc = "done" ELSE TRUE
MainWaiting == wk[0].pc = "wait"
MainPastBarrier ==
    /\ wk[0].pc = "reset"
    /\ completionCount[SiteStage(main)] = StageAt(SiteStage(main)).blockCount

\* C4: under fair scheduling of the started tasks the step runs to completion:
\* every barrier wait of the main worker ends with completionCount equal to
\* blockCount, the main worker stores the UINT_MAX sentinel, and every started
\* worker with index >= 1 returns.
C4_Completes ==
    /\ MainWaiting ~> MainPastBarrier
    /\ <>(atomicSyncBits = UINT_MAX)
    /\ \A w \in WorkerIds \ {0} : TaskStarted(w) ~> TaskReturned(w)

\* every task has returned after a threaded step in which a worker other than
\* the main worker completed blocks of a multi-block stage
C4_Witness ==
    /\ ~input.inlineTasks
    /\ workerCount >= 2
    /\ AllDone
    /\ atomicSyncBits = UINT_MAX
    /\ \E w \in Workers : w # 0 /\ execBy[w] > 0

\* C5: with an inline task queue the step never gets stuck before every task
\* has returned, the main worker's barrier is open whenever it reaches it,
\* worker 0 invokes every kernel, and each other worker goes from its first
\* read of the sync bits (the sentinel) to its return without entering a stage.
C5_InlineQueue ==
    input.inlineTasks =>
        /\ AllDone \/ ENABLED Next
        /\ wk[0].pc = "wait" =>
              BarrierOpen(completionCount[wk[0].stage], StageAt(wk[0].stage).blockCount)
        /\ \A w \in Workers \ {0} :
              /\ execBy[w] = 0
              /\ wk[w].pc \in {"notStarted", "spin", "done"}
              /\ wk[w].lastSyncBits = ZeroBits
              /\ wk[w].pc # "notStarted" => atomicSyncBits = UINT_MAX
        /\ main.site = "Done" =>
              \A a \in DOMAIN execCount : \A b \in DOMAIN execCount[a] :
                  execCount[a][b] = visitCount[a]
        /\ main.site = "Done" =>
              execBy[0] = SumSeq([k \in 1..Len(StageLog) |->
                                    stages[CHOOSE i \in 1..Len(stages) :
                                             /\ stages[i].type = StageLog[k].type
                                             /\ stages[i].colorIndex = StageLog[k].colorIndex].blockCount])

\* an inline step with two workers and multi-block stages has ended
C5_Witness ==
    /\ input.inlineTasks
    /\ workerCount >= 2
    /\ AllDone
    /\ execBy[0] > 4
    /\ "forward" \in claimKinds

(***************************************************************************)
(* Properties of the sensor overlap engine.                                *)
(***************************************************************************)
\* the step is a sensor pass
PassStep == phase = "sensors" /\ phase' = "solve"

\* the events a step pushed to an event array
Pushed(before, after) ==
    IF PassStep THEN after ELSE SubSeq(after, Len(before) + 1, Len(after))

RefsOf(arr) == {arr[i] : i \in 1..Len(arr)}

\* the visitor references of the events of one sensor, in array order
VisitorsOf(events, sensorShapeId) ==
    LET own == SelectSeq(events, LAMBDA e : e.sensorShapeId = sensorShapeId)
    IN  [i \in 1..Len(own) |-> own[i].visitorShapeId]

CountOf(events, sensorShapeId, ref) ==
    Cardinality({i \in 1..Len(events) : events[i] = SensorEvent(sensorShapeId, ref)})

SortedUnique(arr) == \A i \in 1..(Len(arr) - 1) : arr[i].shapeId < arr[i + 1].shapeId

\* ref is in the current overlap set of the sensor of sensorShapeId
InOverlapSet(sensorArray, sensorShapeId, ref) ==
    \E i \in 1..Len(sensorArray) :
        sensorArray[i].shapeId = sensorShapeId /\ ref \in RefsOf(sensorArray[i].overlaps2)

Bit(b) == IF b THEN 1 ELSE 0

C9_SortedMerge ==
    [][PassStep =>
          \A i \in 1..Len(sensors') :
              LET sensor == sensors'[i]
              IN  (/\ (i - 1) \in eventBits'
                   /\ SortedUnique(sensor.overlaps1)
                   /\ SortedUnique(sensor.overlaps2)) =>
                      /\ VisitorsOf(sensorEndEvents', sensor.shapeId)
                           = SelectSeq(sensor.overlaps1,
                                       LAMBDA r : r \notin RefsOf(sensor.overlaps2))
                      /\ VisitorsOf(sensorBeginEvents', sensor.shapeId)
                           = SelectSeq(sensor.overlaps2,
                                       LAMBDA r : r \notin RefsOf(sensor.overlaps1))]_vars

\* a pass has merged sorted arrays of a sensor that share an entry and differ
\* in an ended and in a begun entry
C9_Witness ==
    /\ phase = "solve"
    /\ \E i \in 1..Len(sensors) :
          /\ (i - 1) \in eventBits
          /\ SortedUnique(sensors[i].overlaps1)
          /\ SortedUnique(sensors[i].overlaps2)
          /\ RefsOf(sensors[i].overlaps1) \cap RefsOf(sensors[i].overlaps2) # {}
          /\ VisitorsOf(sensorEndEvents, sensors[i].shapeId) # <<>>
          /\ VisitorsOf(sensorBeginEvents, sensors[i].shapeId) # <<>>

\* the shape that ref was recorded for has been destroyed
Destroyed(ref) ==
    ~shapes[ref.shapeId].alive \/ shapes[ref.shapeId].generation > ref.generation

\* C10: a visitor of an enabled sensor's overlap set was destroyed since the
\* last pass, and no hit recorded before the destruction is pending.  The pass
\* pushes exactly one end event for it, with the recorded generation; the
\* other visitors that still overlap get no event; and exactly one begin event
\* with the new generation is pushed if a new shape in the same slot overlaps,
\* none otherwise.
C10_DestroyedVisitor ==
    [][PassStep =>
          \A i \in 1..Len(sensors) : \A ref \in RefsOf(sensors[i].overlaps2) :
              (/\ ~SensorOff(sensors[i])
               /\ Destroyed(ref)
               /\ ref \notin RefsOf(sensors[i].hits)) =>
                  LET s == sensors[i].shapeId
                      now == RefsOf(sensors'[i].overlaps2)
                  IN  /\ CountOf(sensorEndEvents', s, ref) = 1
                      /\ \A other \in RefsOf(sensors[i].overlaps2) \cap now :
                            other.shapeId # ref.shapeId =>
                               \A r \in VisitorRefs :
                                  r.shapeId = other.shapeId =>
                                     /\ CountOf(sensorBeginEvents', s, r) = 0
                                     /\ CountOf(sensorEndEvents', s, r) = 0
                      /\ \A r \in VisitorRefs :
                            r.shapeId = ref.shapeId =>
                               CountOf(sensorBeginEvents', s, r)
                                 = Bit(r \in now /\ r.generation > ref.generation)]_vars

\* a pass has ended the overlap of the destroyed shape 1 of generation 1 with
\* sensor 3, begun the overlap of its successor of generation 2, and left
\* shape 2 overlapping without an event
C10_Witness ==
    /\ phase = "solve"
    /\ Len(sensors) = 2
    /\ sensors[1].overlaps1 = << b2Visitor(1, 1), b2Visitor(2, 1) >>
    /\ sensors[1].overlaps2 = << b2Visitor(1, 2), b2Visitor(2, 1) >>
    /\ VisitorsOf(sensorEndEvents, 3) = << b2Visitor(1, 1) >>
    /\ VisitorsOf(sensorBeginEvents, 3) = << b2Visitor(1, 2) >>

DestroyStep(s) == shapes[s].alive /\ ~shapes'[s].alive

\* C12: b2DestroySensor pushes exactly one end event, with the recorded
\* generation, for every entry of overlaps2 of the destroyed sensor, no end
\* event for any other visitor reference (one that is only in overlaps1 or
\* only in the pending hits included), and no begin event.
C12_DestroySensorEvents ==
    [][\A s \in SensorShapeIds :
          DestroyStep(s) =>
              LET sensor == sensors[shapes[s].sensorIndex + 1]
              IN  /\ \A ref \in VisitorRefs :
                        CountOf(Pushed(sensorEndEvents, sensorEndEvents'), s, ref)
                          = Bit(ref \in RefsOf(sensor.overlaps2))
                  /\ Len(Pushed(sensorEndEvents, sensorEndEvents'))
                          = Len(sensor.overlaps2)
                  /\ sensorBeginEvents' = sensorBeginEvents]_vars

\* sensor 3 was destroyed after a pass that ended its overlap with shape 1
\* (left in overlaps1 only) and began its overlap with shape 2 (in
\* overlaps2): the destruction pushed the end event of shape 2 and none for
\* shape 1
C12_Witness ==
    /\ ~shapes[3].alive
    /\ VisitorsOf(sensorBeginEvents, 3) = << b2Visitor(2, 1) >>
    /\ VisitorsOf(sensorEndEvents, 3) = << b2Visitor(1, 1), b2Visitor(2, 1) >>

\* the sensor shapes that passed the filters of the sweep so far
SensorCandidates == SelectSeq(ccd.visited, LAMBDA c : c.passes /\ c.isSensor)

\* the step hands a shape to the query callback
CallbackStep == ccd.pc = "query" /\ Len(ccd'.visited) = Len(ccd.visited) + 1

\* C13: in the continuous collision of one fast body the committed fraction
\* starts at 1, a candidate leaves it alone or replaces it by a value strictly
\* between 0 and its current value, and it stays in (0, 1], whatever the order
\* of the candidates, the core fallbacks and the pre-solve answers.
C13_FractionMonotone ==
    /\ [](ccd.pc # "rest" =>
            /\ 0 < ccd.context.fraction
            /\ ccd.context.fraction <= FractionSteps
            /\ (ccd.visited = << >> => ccd.context.fraction = FractionSteps))
    /\ [][CallbackStep =>
            \/ ccd'.context.fraction = ccd.context.fraction
            \/ /\ 0 < ccd'.context.fraction
               /\ ccd'.context.fraction < ccd.context.fraction]_vars

\* a solid hit at 2/3 and then a solid shape that overlaps at the start of the
\* sweep and whose core circle hits at 1/3
C13_Witness ==
    /\ Len(ccd.visited) = 2
    /\ ccd.visited[1] = Candidate(1, TRUE, FALSE, 2)
    /\ ccd.visited[2] = Candidate(2, TRUE, FALSE, 0)
    /\ ccd.context.fraction = 1
    /\ ccd.hadTimeOfImpact

\* the shape the step hands to the callback is a sensor that passed the filters
SensorStep ==
    /\ CallbackStep
    /\ ccd'.visited[Len(ccd'.visited)].passes
    /\ ccd'.visited[Len(ccd'.visited)].isSensor

\* C19: the sensor-hit buffer of a sweep never holds more than 8 entries; a
\* sensor hit that finds the buffer full is dropped and the sweep goes on
\* unchanged; when at most 8 sensor shapes passed the filters, every one of
\* them with a fraction below the final committed fraction is pushed to the
\* task context.
C19_SensorBuffer ==
    /\ [](/\ ccd.context.sensorCount <= B2_MAX_CONTINUOUS_SENSOR_HITS
          /\ Len(ccd.context.sensorHits) = ccd.context.sensorCount
          /\ Len(ccd.context.sensorFractions) = ccd.context.sensorCount
          /\ (ccd.pc = "done" /\ Len(SensorCandidates) <= B2_MAX_CONTINUOUS_SENSOR_HITS) =>
                \A i \in 1..Len(SensorCandidates) :
                    SensorCandidates[i].fraction < ccd.context.fraction =>
                        \E j \in 1..Len(ccd.sensorHits) :
                            ccd.sensorHits[j] = SensorCandidates[i].shapeId)
    /\ [][(SensorStep /\ ccd.context.sensorCount = B2_MAX_CONTINUOUS_SENSOR_HITS) =>
            /\ ccd'.context = ccd.context
            /\ ccd'.hadTimeOfImpact = ccd.hadTimeOfImpact
            /\ ccd'.pc = "query"]_vars

\* nine sensor shapes passed the filters before any solid hit: eight are
\* buffered and pushed, the ninth is missing from the task context
C19_Witness ==
    /\ ccd.pc = "done"
    /\ Len(SensorCandidates) = B2_MAX_CONTINUOUS_SENSOR_HITS + 1
    /\ SensorCandidates[B2_MAX_CONTINUOUS_SENSOR_HITS + 1].fraction = 1
    /\ ccd.context.fraction = FractionSteps
    /\ ccd.context.sensorCount = B2_MAX_CONTINUOUS_SENSOR_HITS
    /\ \A j \in 1..Len(ccd.sensorHits) :
          ccd.sensorHits[j] # SensorCandidates[B2_MAX_CONTINUOUS_SENSOR_HITS + 1].shapeId
    /\ Len(ccd.sensorHits) >= 1

\* the joints some worker flagged
FlaggedJoints == UNION {world.taskContexts[w].jointStateBitSet : w \in StepWorkers}

\* the step is the joint event report of b2Solve
JointReportStep == solve.pc = "jointEvents" /\ solve'.pc # "jointEvents"

\* C14: the joint event report pushes exactly one event for each joint whose
\* bit is set in some worker's jointStateBitSet and none for another joint, in
\* ascending joint id order, whichever and however many workers flagged the
\* joint; the events stay as they are until b2Solve returns.
C14_JointEvents ==
    [][/\ JointReportStep =>
            /\ \A j \in 0..(solve.input.jointCount - 1) :
                  Cardinality({k \in 1..Len(world'.jointEvents) : world'.jointEvents[k] = j})
                    = Bit(j \in FlaggedJoints)
            /\ Len(world'.jointEvents) = Cardinality(FlaggedJoints)
            /\ \A k \in 1..(Len(world'.jointEvents) - 1) :
                  world'.jointEvents[k] < world'.jointEvents[k + 1]
       /\ ~JointReportStep => world'.jointEvents = world.jointEvents]_vars

\* joint 0 was flagged by worker 1 alone and joint 1 by both workers
C14_Witness ==
    /\ solve.pc = "return"
    /\ world.taskContexts[1].jointStateBitSet = {0, 1}
    /\ world.jointEvents = << 0, 1 >>

\* the bodies that proposed their island for splitting: they finished the step
\* sleepy enough in an island with removed constraints
Proposers ==
    {i \in SimIndices :
        /\ solve.input.enableSleep
        /\ world.sleepTime[i] >= B2_TIME_TO_SLEEP
        /\ BodyAt(i).splitting}

\* C15: after the join the split candidate of the world is the proposed island
\* with the largest sleep time, the smallest island id among equals, whichever
\* workers finalized the bodies.
C15_SplitCandidate ==
    (solve.pc = "return" /\ AwakeBodyCount > 0 /\ solve.input.enableSleep) =>
        IF Proposers = {}
        THEN world.splitIslandId = B2_NULL_INDEX
        ELSE \E i \in Proposers :
                /\ world.splitIslandId = BodyAt(i).islandId
                /\ \A k \in Proposers :
                      \/ world.sleepTime[k] < world.sleepTime[i]
                      \/ /\ world.sleepTime[k] = world.sleepTime[i]
                         /\ BodyAt(k).islandId >= BodyAt(i).islandId

\* the sim indices of the bodies that are fast bullets in this step
FastBullets ==
    {i \in SimIndices :
        /\ ~solve.input.enableSleep \/ ~BodyAt(i).sleepy
        /\ IsFast(BodyAt(i), solve.input.enableContinuous)
        /\ BodyAt(i).isBullet}

\* bulletBodies[0..bulletBodyCount): what the bullet task is given
BulletArray == SubSeq(stepContext.bulletBodies, 1, stepContext.bulletBodyCount)

\* the finalize task is joined and the bullet array is not yet freed
BulletsCollected == solve.pc \in {"jointEvents", "hitEvents", "refit", "bullets"}

\* C16 as stated: after the finalize task the bullet array holds the same
\* sequence for every interleaving of the workers, the one a single worker
\* going up the sim indices produces.
C16_BulletOrder ==
    BulletsCollected =>
        /\ \A k \in 1..(Len(BulletArray) - 1) : BulletArray[k] < BulletArray[k + 1]
        /\ {BulletArray[k] : k \in 1..Len(BulletArray)} = FastBullets

\* C16 amended: after the finalize task the bullet array holds the sim index
\* of every fast bullet body exactly once and nothing else, for every
\* interleaving of the workers; the order of the entries is the order of the
\* fetch-adds and differs between interleavings.
C16_BulletSet ==
    BulletsCollected =>
        /\ Len(BulletArray) = Cardinality(FastBullets)
        /\ {BulletArray[k] : k \in 1..Len(BulletArray)} = FastBullets

\* the bullet at sim index 2 took its slot before the bullet at sim index 0
C16_Witness ==
    /\ BulletsCollected
    /\ BulletArray = << 2, 0 >>

\* the position of a stage in an order of stages, 0 when it is not in it
Position(order, stage) ==
    IF \E k \in 1..Len(order) : order[k] = stage
    THEN CHOOSE k \in 1..Len(order) : order[k] = stage
    ELSE 0

\* the stages run so far were run in the given order
RunInOrder(order) ==
    \A a, b \in 1..Len(solve.log) :
        a < b => Position(order, solve.log[a]) < Position(order, solve.log[b])

\* the stages b2Solve has to run on the world it was called on
StagesDue(order) ==
    SelectSeq(order, LAMBDA stage :
        /\ stage = "Bullets" => FastBullets # {}
        /\ stage = "IslandSleep" => solve.input.enableSleep)

\* C17 as stated: after the solver workers are joined the stages run in the
\* order finalize, bullet task, sensor hits, joint events, hit events,
\* broad-phase refit, island sleep.
C17_StatedOrder ==
    RunInOrder(<< "FinalizeBodies", "Bullets", "SensorHits", "JointEvents", "HitEvents",
                  "Refit", "IslandSleep" >>)

\* the order of the stages in b2Solve
CodeOrder ==
    << "FinalizeBodies", "JointEvents", "HitEvents", "Refit", "Bullets", "SensorHits",
       "IslandSleep" >>

\* C17 amended: after the solver workers are joined the stages run in the
\* order finalize (with the inline sweeps of the fast bodies that are not
\* bullets), joint events, hit events, broad-phase refit, bullet task, sensor
\* hits, island sleep; the bullet task is skipped without bullets and the
\* island sleep when the world disables sleep.
C17_StageOrder ==
    /\ RunInOrder(CodeOrder)
    /\ (solve.pc = "return" /\ AwakeBodyCount > 0) => solve.log = StagesDue(CodeOrder)

\* a step with bullets and with sleep enabled ran all seven stages
C17_Witness ==
    /\ solve.pc = "return"
    /\ solve.log = CodeOrder

\* C18: every arena item b2Solve allocates is freed before it returns, and the
\* frees are the allocations in reverse order, with or without bullets.
C18_ArenaLifo ==
    /\ world.arena \o Reverse(solve.freed) = solve.allocated
    /\ solve.pc = "return" =>
          /\ world.arena = << >>
          /\ AwakeBodyCount > 0 => solve.allocated = << "bulletBodies" >> \o StageItems

\* a step without bullets returned with its ten items freed
C18_Witness ==
    /\ solve.pc = "return"
    /\ FastBullets = {}
    /\ Len(solve.freed) = 10
    /\ solve.freed[10] = "bulletBodies"

\* C20: after the finalize task and the bullet task the move event array has
\* one slot per awake body, the slot at a body's sim index holds the event of
\* that body, and the event's transform is the final transform of the body
\* sim, the interpolated one when a sweep committed a hit.
C20_MoveEvents ==
    (solve.pc \in {"freeBullets", "sleep", "return"} /\ AwakeBodyCount > 0) =>
        /\ DOMAIN world.bodyMoveEvents = SimIndices
        /\ \A i \in SimIndices :
              /\ world.bodyMoveEvents[i].bodyId = i
              /\ world.bodyMoveEvents[i].transform = world.sims[i].transform

\* a bullet stopped at 1/3 of its sweep by the bullet task and a fast body
\* stopped at 2/3 by its inline sweep
C20_Witness ==
    /\ solve.pc = "return"
    /\ AwakeBodyCount = 3
    /\ BodyAt(0).isBullet /\ world.sims[0].hadTimeOfImpact
    /\ world.bodyMoveEvents[0].transform = 1
    /\ ~BodyAt(1).isBullet /\ world.sims[1].hadTimeOfImpact
    /\ world.bodyMoveEvents[1].transform = 2
    /\ world.bodyMoveEvents[2].transform = FractionSteps

\* block b of array a is handed to its kernel in this step
Executes(a, b) == execCount'[a][b] > execCount[a][b]

\* worker w has just won the compare-and-swap of block b of array a from its
\* previousSyncIndex to its syncIndex
WonExchange(w, a, b) ==
    /\ wk'[w].running = b
    /\ StageAt(wk'[w].stage).blocks = a
    /\ blockSync[a][b] = wk'[w].previousSyncIndex
    /\ blockSync'[a][b] = wk'[w].syncIndex
    /\ wk'[w].syncIndex = wk'[w].previousSyncIndex + 1

\* C21 as stated: the syncIndex of a block never decreases, and a block is
\* executed only by a worker whose compare-and-swap of that block's syncIndex
\* from previousSyncIndex to syncIndex has just succeeded.
C21_ExchangeBeforeRun ==
    [][\A a \in DOMAIN blockSync : \A b \in DOMAIN blockSync[a] :
          /\ blockSync'[a][b] >= blockSync[a][b]
          /\ Executes(a, b) => \E w \in Workers : WonExchange(w, a, b)]_vars

\* C21 amended: the syncIndex of a block never decreases; inside
\* b2ExecuteStage a block is executed only by a worker whose compare-and-swap
\* of its syncIndex from previousSyncIndex to syncIndex has just succeeded;
\* the single block of a one-block stage is executed by the main worker
\* without a compare-and-swap and keeps its syncIndex.
C21_ExchangeOrSingleBlock ==
    [][\A a \in DOMAIN blockSync : \A b \in DOMAIN blockSync[a] :
          /\ blockSync'[a][b] >= blockSync[a][b]
          /\ Executes(a, b) =>
                \/ \E w \in Workers : WonExchange(w, a, b)
                \/ /\ wk'[0].pc = "inline"
                   /\ StageAt(wk'[0].stage).blocks = a
                   /\ StageAt(wk'[0].stage).blockCount = 1
                   /\ b = 0
                   /\ blockSync'[a][b] = blockSync[a][b]]_vars

\* a block reached syncIndex 2 by exchanges, blocks were also stolen from
\* the end of the array, and a one-block stage was run by the main worker
C21_Witness ==
    /\ \E a \in DOMAIN blockSync : \E b \in DOMAIN blockSync[a] : blockSync[a][b] = 2
    /\ {"inline", "backward"} \subseteq claimKinds
    /\ \E w \in Workers : w # 0 /\ execBy[w] > 0

\* ceil(a / b) for a >= 0 and b >= 1
CeilDiv(a, b) == (a + b - 1) \div b

MaxOf(a, b) == IF a > b THEN a ELSE b

PrepConfigured == prep.pc \in {"configured", "prepared"} /\ prep.count >= 1

\* C22 as stated: a family with count elements gets
\* blockSize = max(4, ceil(count / (4 * workerCount))) and
\* blockCount = ceil(count / blockSize), and blockCount never exceeds
\* 4 * workerCount.
C22_CeilRule ==
    PrepConfigured =>
        /\ prep.blockSize = MaxOf(4, CeilDiv(prep.count, 4 * prep.workerCount))
        /\ prep.blockCount = CeilDiv(prep.count, prep.blockSize)
        /\ prep.blockCount <= 4 * prep.workerCount

\* C22 amended: with base = 32 for bodies and 4 for the other families and
\* maxBlockCount = 4 * workerCount, a family of at most base * maxBlockCount
\* elements gets blockSize = base and blockCount = ceil(count / base); a
\* larger family gets blockCount = maxBlockCount and
\* blockSize = floor(count / maxBlockCount); blockCount never exceeds
\* maxBlockCount.
C22_FloorRule ==
    PrepConfigured =>
        LET base == BaseBlockSize(prep.family)
            maxBlockCount == 4 * prep.workerCount
        IN /\ prep.blockCount <= maxBlockCount
           /\ prep.blockCount >= 1
           /\ IF prep.count <= base * maxBlockCount
              THEN /\ prep.blockSize = base
                   /\ (prep.blockCount - 1) * base < prep.count
                   /\ prep.count <= prep.blockCount * base
              ELSE /\ prep.blockCount = maxBlockCount
                   /\ prep.blockSize * maxBlockCount <= prep.count
                   /\ prep.count < (prep.blockSize + 1) * maxBlockCount

\* a color's joints just above the threshold of two workers: the block size
\* stays at floor(33 / 8) = 4 where the ceiling would give 5
C22_Witness ==
    /\ prep.pc = "configured"
    /\ prep.family = "graphJoint"
    /\ prep.count = 33
    /\ prep.workerCount = 2
    /\ prep.blockSize = 4
    /\ prep.blockCount = 8

RECURSIVE SumCounts(_)
SumCounts(blocks) ==
    IF blocks = <<>> THEN 0 ELSE Head(blocks).count + SumCounts(Tail(blocks))

\* C23 as stated: for a family with count >= 1 the prepared blocks tile
\* [0, count) exactly: block i starts at i * blockSize, the ranges are
\* pairwise disjoint, every block is non-empty, the last block absorbs the
\* remainder, and the 16-bit counts as stored sum to count.
C23_BlocksTile ==
    (prep.pc = "prepared" /\ prep.count >= 1) =>
        LET blocks == prep.blocks
            n == Len(blocks)
        IN /\ n = prep.blockCount
           /\ n >= 1
           /\ \A i \in 1..n : blocks[i].startIndex = (i - 1) * prep.blockSize
           /\ \A i \in 1..n : blocks[i].count >= 1
           /\ \A i \in 1..(n - 1) : blocks[i].count = prep.blockSize
           /\ blocks[n].startIndex + blocks[n].count = prep.count
           /\ \A i \in 1..(n - 1) :
                 blocks[i].startIndex + blocks[i].count = blocks[i + 1].startIndex
           /\ SumCounts(blocks) = prep.count

Overflow(type, useBias) ==
    [k |-> "overflow", type |-> type, colorIndex |-> -1, useBias |-> useBias]

\* the stage visits and the overflow calls of one substep, in program order
SubStepWork ==
    << Visit("IntegrateVelocities", -1, FALSE), Overflow("WarmStart", FALSE) >>
    \o ColorVisits("WarmStart", FALSE)
    \o Repeat(<< Overflow("Solve", TRUE) >> \o ColorVisits("Solve", TRUE), ITERATIONS)
    \o << Visit("IntegratePositions", -1, FALSE) >>
    \o Repeat(<< Overflow("Relax", FALSE) >> \o ColorVisits("Relax", FALSE),
              RELAX_ITERATIONS)

StepWork ==
    << Visit("PrepareJoints", -1, FALSE), Visit("PrepareContacts", -1, FALSE),
       Overflow("Prepare", FALSE) >>
    \o Repeat(SubStepWork, subStepCount)
    \o << Overflow("Restitution", FALSE) >>
    \o ColorVisits("Restitution", FALSE)
    \o << Overflow("StoreImpulses", FALSE), Visit("StoreImpulses", -1, FALSE) >>

\* the main worker makes an overflow call in this step
OverflowStep ==
    \E i \in (Len(main.log) + 1)..Len(main'.log) : main'.log[i].k = "overflow"

\* C24: overflow joints and contacts are processed by the main worker only,
\* between two stage visits and while no worker is executing a block, in the
\* order prepare, per substep warm start, solve per iteration and relax per
\* iteration, restitution, store impulses, each call right before the color
\* loop of its kind (prepare right after PrepareContacts, store impulses right
\* before the StoreImpulses stage).
C24_OverflowAlone ==
    /\ [](IsPrefix(main.log, StepWork) /\ (main.site = "Done" => main.log = StepWork))
    /\ [][OverflowStep =>
            /\ wk'[0].pc = "ready"
            /\ \A w \in Workers : wk[w].running = -1 \/ w = 0
            /\ \A w \in Workers : wk'[w].running = -1]_vars

\* a step with a substep and two active colors has ended, its parallel stages
\* shared with a second worker
C24_Witness ==
    /\ main.site = "Done"
    /\ subStepCount >= 1
    /\ activeColorCount >= 2
    /\ Len(SelectSeq(main.log, LAMBDA e : e.k = "overflow")) = 6
    /\ \E w \in Workers : w # 0 /\ execBy[w] > 0

\* the numerical order of two 32-bit sync-bits values
SyncBitsLess(a, b) == a[1] < b[1] \/ (a[1] = b[1] /\ a[2] < b[2])

\* C25 as stated: every value the main worker stores to atomicSyncBits for a
\* stage is numerically greater than the value it stored before it, across
\* stages and across substeps.
C25_PublishedIncrease ==
    \A i \in 1..(Len(main.published) - 1) :
        SyncBitsLess(main.published[i], main.published[i + 1])

\* the main worker is about to publish, or has published, the stage of its
\* call site
PublishingSite ==
    /\ main.site \in CallSites
    /\ StageAt(SiteStage(main)).blockCount > 1

\* C27 as stated: for every subStepCount and activeColorCount the assertions
\* syncIndex > 0 and stageIndex < stageCount hold on every sync-bits value
\* decoded by the main worker or by a worker, and the decoded pair is the
\* pair the main worker packed: the sync indices never wrap their 16 bits.
C27_NoWrap ==
    /\ failedAsserts \cap {"syncIndex", "stageIndex"} = {}
    /\ PublishingSite =>
          /\ SyncIndexOf(SiteSyncBits(main)) = SiteSync(main)
          /\ StageIndexOf(SiteSyncBits(main)) = SiteStage(main)
    /\ \A w \in Workers :
          wk[w].pc \in {"forward", "backward"} =>
             /\ wk[w].syncIndex > 0
             /\ wk[w].stage < stageCount

\* C26: within a step no two stage visits publish the same atomicSyncBits
\* value, and no value published for a stage is 0 (the lastSyncBits a worker
\* starts with) or the UINT_MAX sentinel, which is stored only when the main
\* worker is done: a value just published differs from the lastSyncBits of
\* every worker, and no worker returns before the main worker has finished.
C26_PublishedUnique ==
    /\ [](/\ \A i, j \in 1..Len(main.published) :
                i # j => main.published[i] # main.published[j]
          /\ \A i \in 1..Len(main.published) :
                main.published[i] \notin {ZeroBits, UINT_MAX}
          /\ atomicSyncBits = UINT_MAX => main.site = "Done"
          /\ \A w \in Workers : wk[w].pc = "done" => main.site = "Done")
    /\ [][atomicSyncBits' # atomicSyncBits =>
             \A w \in Workers : wk[w].lastSyncBits # atomicSyncBits']_vars

\* a step of two substeps has ended: every stage of the substep loop was
\* visited twice, and a second worker took part and has returned
C26_Witness ==
    /\ main.site = "Done"
    /\ subStepCount = 2
    /\ Len(main.published) >= 10
    /\ \E w \in Workers : w # 0 /\ execBy[w] > 0 /\ wk[w].pc = "done"

\* worker w is inside b2ExecuteStage for a stage visit that is not the one
\* the main worker is in
LateWorker(w) ==
    /\ w # 0
    /\ wk[w].pc \in {"forward", "backward", "add"}
    /\ ~(/\ MainInVisit
         /\ wk[w].stage = SiteStage(main)
         /\ wk[w].syncIndex = SiteSync(main))

C29_SensorBeforeSolid ==
    ccd.pc = "done" =>
        /\ \A j \in 1..Len(ccd.sensorHits) :
              LET c == ccd.visited[ccd.sensorHits[j]]
              IN  c.isSensor /\ c.passes /\ c.fraction < ccd.context.fraction
        /\ \A i \in 1..Len(ccd.visited) :
              (ccd.visited[i].isSensor /\ ccd.visited[i].fraction >= ccd.context.fraction) =>
                 \A j \in 1..Len(ccd.sensorHits) : ccd.sensorHits[j] # i

\* a sensor was buffered at fraction 2, a solid hit at fraction 1 came after
\* it and a sensor at fraction 0 was visited too: only the last is pushed
C29_Witness ==
    /\ ccd.pc = "done"
    /\ ccd.context.fraction = 1
    /\ \E i, k \in 1..Len(ccd.visited) :
          /\ i < k
          /\ ccd.visited[i].isSensor /\ ccd.visited[i].passes /\ ccd.visited[i].fraction = 2
          /\ ~ccd.visited[k].isSensor /\ ccd.visited[k].fraction = 1
          /\ \E n \in 1..ccd.context.sensorCount : ccd.context.sensorHits[n] = i
          /\ \A j \in 1..Len(ccd.sensorHits) : ccd.sensorHits[j] # i
    /\ Len(ccd.sensorHits) >= 1

\* the workers between their fetch-add and the store of the sim index
Storing == {w \in StepWorkers : solve.storing[w] # << >>}

\* C30: once the finalize task is joined, bulletBodies[0..bulletBodyCount)
\* holds the sim index of every body that is fast and a bullet exactly once
\* and nothing else; every fetch-add returns a slot no other worker holds or
\* has written; bulletBodyCount never exceeds awakeBodyCount, the capacity of
\* the array; the bullet task reads the array only after the join, when
\* every slot below bulletBodyCount is written.
C30_BulletSlots ==
    /\ [](BulletsCollected =>
             /\ \A i \in FastBullets :
                   Cardinality({k \in 1..Len(BulletArray) : BulletArray[k] = i}) = 1
             /\ \A k \in 1..Len(BulletArray) : BulletArray[k] \in FastBullets)
    /\ [](/\ stepContext.bulletBodyCount <= AwakeBodyCount
          /\ stepContext.bulletBodyCount <= Len(stepContext.bulletBodies)
          /\ \A w \in Storing :
                /\ solve.storing[w][1] < stepContext.bulletBodyCount
                /\ stepContext.bulletBodies[solve.storing[w][1] + 1] = B2_NULL_INDEX
                /\ \A v \in Storing : v # w => solve.storing[v][1] # solve.storing[w][1])
    /\ [](solve.swept # {} =>
             /\ solve.pc \notin {"enter", "solve", "finalize"}
             /\ solve.finalized = SimIndices
             /\ Storing = {})
    /\ [][solve'.swept # solve.swept => stepContext' = stepContext]_vars

\* two bullets were stored through two fetch-adds and the bullet task has
\* swept the first of them
C30_Witness ==
    /\ solve.pc = "bullets"
    /\ stepContext.bulletBodyCount = 2
    /\ BulletArray[1] # BulletArray[2]
    /\ solve.swept = {1}

\* C39: for blockCount >= 1 the start indices GetWorkerStartIndex gives the
\* workers lie in [0, blockCount) and are pairwise distinct; the null index is
\* returned exactly for the workers with workerIndex >= blockCount when
\* blockCount <= workerCount; worker 0 always has a start index.
C39_StartIndices ==
    (prep.pc = "started" /\ prep.blockCount >= 1) =>
        LET start == prep.startIndex
            wc == prep.workerCount
            valid == {w \in 1..wc : start[w] # B2_NULL_INDEX}
        IN /\ \A w \in valid : 0 <= start[w] /\ start[w] < prep.blockCount
           /\ \A w, v \in valid : w # v => start[w] # start[v]
           /\ \A w \in 1..wc :
                 start[w] = B2_NULL_INDEX <=>
                     (prep.blockCount <= wc /\ w - 1 >= prep.blockCount)
           /\ 1 \in valid

\* three workers over two blocks, the third without a start block
C39_Witness ==
    /\ prep.pc = "started"
    /\ prep.workerCount = 3
    /\ prep.blockCount = 2
    /\ prep.startIndex = << 0, 1, B2_NULL_INDEX >>

\* C40: for every activeColorCount and subStepCount the stage at the main
\* worker's cursor has the type its call site expects, the cursor ends with
\* stageIndex + 1 = stageCount, as many stages are built as stageCount says,
\* and a block of PrepareContacts is claimed with syncIndex 1 only, though
\* StoreImpulses runs over the same contact blocks with syncIndex 2.
C40_StageCursor ==
    /\ failedAsserts \cap {"stageType", "stageCount"} = {}
    /\ Len(stages) = stageCount
    /\ main.site \in CallSites =>
          /\ SiteStage(main) < stageCount
          /\ StageAt(SiteStage(main)).type = main.site
    /\ main.site = "Done" => main.stageIndex + 1 = stageCount
    /\ \A w \in Workers :
          (wk[w].pc \in {"forward", "backward"}
             /\ StageAt(wk[w].stage).type = "PrepareContacts") => wk[w].syncIndex = 1
    /\ \A b \in DOMAIN blockSync[<<"contact", 0>>] :
          blockSync[<<"contact", 0>>][b] = 2 =>
             (main.site \in {"StoreImpulses", "Signal", "Done"})

\* a step with a substep and an active color of 17 contacts has ended; its
\* two contact blocks were claimed by PrepareContacts and again by
\* StoreImpulses
C40_Witness ==
    /\ main.site = "Done"
    /\ subStepCount >= 1
    /\ activeColorCount = 1
    /\ workerCount = 2
    /\ \E b \in DOMAIN blockSync[<<"contact", 0>>] : blockSync[<<"contact", 0>>][b] = 2

\* the call of b2Solve found the awake set empty
EmptyStep == solve.pc = "enter" /\ AwakeBodyCount = 0

\* C38: when the awake set has no bodies, b2Solve increments stepIndex,
\* finishes the pending tree task and returns: nothing is allocated from the
\* arena, no task stage is run, and the move events, joint events, hit
\* events, per-worker bit sets, sensor hits, split island and bullet array
\* are as they were.
C38_EmptyStep ==
    [][EmptyStep =>
          /\ solve' = [solve EXCEPT !.pc = "return"]
          /\ world'.stepIndex = world.stepIndex + 1
          /\ ~world'.userTreeTask
          /\ world'.activeTaskCount =
                IF world.userTreeTask THEN world.activeTaskCount - 1
                ELSE world.activeTaskCount
          /\ world' = [world EXCEPT
                         !.stepIndex = world'.stepIndex,
                         !.userTreeTask = world'.userTreeTask,
                         !.activeTaskCount = world'.activeTaskCount]
          /\ stepContext' = stepContext]_vars

\* the empty step followed a step that left joint bits, enlarged bits and
\* events behind, and it finished the pending tree task
C38_Witness ==
    /\ solve.pc = "return"
    /\ AwakeBodyCount = 0
    /\ world.stepIndex = 2
    /\ world.activeTaskCount = 0
    /\ solve.input.userTreeTask
    /\ solve.allocated = << >>
    /\ solve.log = << >>
    /\ world.jointEvents # << >>
    /\ world.contactHitEvents # << >>
    /\ \E w \in StepWorkers : world.taskContexts[w].enlargedSimBitSet # {}

\* the step is past the bullet task
BulletsDone == solve.pc \in {"freeBullets", "sleep", "return"}

\* C31: in each step b2SolveContinuous runs exactly once for every body
\* marked isFast in that step, inline in the finalize task for a body that is
\* not a bullet and in the bullet task for a bullet, and never for a body
\* that is sleepy, not dynamic or in a world with continuous collision
\* disabled; the assertion that the swept body has isFast set never fails.
C31_SweepOnce ==
    /\ "isFast" \notin solve.asserts
    /\ \A i \in SimIndices :
          /\ solve.sweeps[i] <= 1
          /\ solve.sweeps[i] = 1 =>
                /\ world.sims[i].isFast
                /\ ~(solve.input.enableSleep /\ BodyAt(i).sleepy)
                /\ BodyAt(i).type = "dynamicBody"
                /\ solve.input.enableContinuous
                /\ BodyAt(i).isBullet => solve.pc \in {"bullets", "freeBullets", "sleep", "return"}
                /\ ~BodyAt(i).isBullet => i \in solve.finalized
          /\ (i \in solve.finalized /\ world.sims[i].isFast /\ ~BodyAt(i).isBullet) =>
                solve.sweeps[i] = 1
          /\ (BulletsDone /\ world.sims[i].isFast) => solve.sweeps[i] = 1

\* a step swept a bullet and a fast body that is not a bullet once each, in
\* a world whose bodies were slow in the step before
C31_Witness ==
    /\ solve.pc = "return"
    /\ world.stepIndex = 3
    /\ \E i, k \in SimIndices :
          /\ BodyAt(i).isBullet /\ solve.sweeps[i] = 1
          /\ ~BodyAt(k).isBullet /\ solve.sweeps[k] = 1

\* the finalize task is joined and the enlarged bits are not gathered yet
AfterFinalize == solve.pc \in {"jointEvents", "hitEvents", "refit"}

\* some shape of the body left its fat AABB in this step
Escaped(i) == \E k \in DOMAIN BodyAt(i).escapes : BodyAt(i).escapes[k]

\* C32: after the finalize task a body's bit is set in the enlargedSimBitSet
\* of the worker that finalized it exactly when the body is fast or one of
\* its shapes escaped its fat AABB, in which case that shape is flagged; no
\* other bit is set and no worker holds a bit of a body it did not finalize.
C32_EnlargedBits ==
    /\ \A w \in StepWorkers :
          solve.pc = "finalize" =>
             \A i \in world.taskContexts[w].enlargedSimBitSet :
                 i \in solve.finalized /\ solve.finalizedBy[i] = w
    /\ AfterFinalize =>
          \A w \in StepWorkers :
             /\ world.taskContexts[w].enlargedSimBitSet \subseteq SimIndices
             /\ \A i \in SimIndices :
                   /\ i \in world.taskContexts[w].enlargedSimBitSet <=>
                         /\ solve.finalizedBy[i] = w
                         /\ world.sims[i].isFast \/ Escaped(i)
                   /\ ~world.sims[i].isFast =>
                         \A k \in DOMAIN BodyAt(i).escapes :
                             world.enlargedAABB[i][k] = BodyAt(i).escapes[k]

\* worker 0 flagged a fast body none of whose shapes escaped, worker 1 a
\* slow body with an escaped shape
C32_Witness ==
    /\ solve.pc = "refit"
    /\ \E i, k \in SimIndices :
          /\ i \in world.taskContexts[0].enlargedSimBitSet
          /\ world.sims[i].isFast /\ ~Escaped(i)
          /\ k \in world.taskContexts[1].enlargedSimBitSet
          /\ ~world.sims[k].isFast /\ Escaped(k)

\* the shapes of awake bodies whose enlargedAABB flag is set
EnlargedShapes ==
    {<< i, k >> \in SimIndices \X (1..2) :
        k \in DOMAIN world.enlargedAABB[i] /\ world.enlargedAABB[i][k]}

\* C33: no shape of an awake body has enlargedAABB set when b2Solve is
\* entered or returns: the flags set in the finalize task and in the inline
\* sweeps are cleared by the serial refit loop, which leaves only the flags
\* of fast bullets, and those are cleared by the serial bullet loop; the
\* assertion in the finalize task of the next step never fails.
C33_NoEnlargedLeft ==
    /\ "enlargedAABB" \notin solve.asserts
    /\ solve.pc \in {"enter", "solve", "freeBullets", "sleep", "return"} => EnlargedShapes = {}
    /\ solve.pc = "bullets" =>
          \A s \in EnlargedShapes : BodyAt(s[1]).isBullet /\ world.sims[s[1]].isFast

\* the second step on a world returned: its finalize task flagged a shape of
\* a slow body whose shapes were flagged in the step before, and the flags
\* are cleared
C33_Witness ==
    /\ solve.pc = "return"
    /\ world.stepIndex = 2
    /\ AwakeBodyCount > 0
    /\ \E i \in world.taskContexts[0].enlargedSimBitSet :
          /\ ~world.sims[i].isFast
          /\ Escaped(i)
          /\ world.sims[i].enlargeBounds
    /\ EnlargedShapes = {}

\* the bodies of the island with local index islandIndex
IslandBodies(islandIndex) == {i \in SimIndices : BodyAt(i).islandId = islandIndex}

\* the islands b2TrySleepIsland was called for
SleptIslands == {world.sleepCalls[k] : k \in 1..Len(world.sleepCalls)}

\* C34: b2TrySleepIsland is called for an island exactly when sleeping is
\* enabled and every body of the island finished the step with sleepTime at
\* least B2_TIME_TO_SLEEP, whichever workers finalized the bodies; the calls
\* are in descending local index; with world sleeping disabled no island is
\* put to sleep and no split candidate is chosen.
C34_IslandSleep ==
    /\ solve.pc # "return" => world.sleepCalls = << >>
    /\ (solve.pc = "return" /\ AwakeBodyCount > 0) =>
          /\ \A a, b \in 1..Len(world.sleepCalls) :
                a < b => world.sleepCalls[a] > world.sleepCalls[b]
          /\ \A islandIndex \in 0..(IslandCount - 1) :
                islandIndex \in SleptIslands <=>
                   /\ solve.input.enableSleep
                   /\ \A i \in IslandBodies(islandIndex) :
                         world.sleepTime[i] >= B2_TIME_TO_SLEEP
          /\ SleptIslands \subseteq 0..(IslandCount - 1)
          /\ ~solve.input.enableSleep =>
                /\ world.sleepCalls = << >>
                /\ world.splitIslandId = B2_NULL_INDEX
                /\ \A i \in SimIndices : world.sleepTime[i] = 0

\* island 0 went to sleep and island 1 stayed awake for one of its two
\* bodies, the other one being past the time to sleep and finalized by
\* another worker
C34_Witness ==
    /\ solve.pc = "return"
    /\ world.sleepCalls = << 0 >>
    /\ \E i, k \in IslandBodies(1) :
          /\ world.sleepTime[i] >= B2_TIME_TO_SLEEP
          /\ world.sleepTime[k] < B2_TIME_TO_SLEEP
          /\ solve.finalizedBy[i] # solve.finalizedBy[k]

\* C35: after any sequence of sensor destructions every sensor at index i of
\* the sensor array refers to a live shape whose sensorIndex is i, also when
\* the destroyed sensor was the last element and no sensor was moved.
C35_SensorIndex ==
    \A i \in 1..Len(sensors) :
        /\ shapes[sensors[i].shapeId].alive
        /\ shapes[sensors[i].shapeId].sensorIndex = i - 1
        /\ \A k \in 1..Len(sensors) : sensors[k].shapeId = sensors[i].shapeId => k = i

\* the sensor at the end of the array was destroyed and the other one stayed
\* at index 0
C35_Witness ==
    /\ Len(sensors) = 1
    /\ sensors[1].shapeId = 3
    /\ ~shapes[4].alive
    /\ shapes[3].sensorIndex = 0

\* the events of a pass that belong to the sensor of sensorShapeId
EventsOf(events, sensorShapeId) ==
    SelectSeq(events, LAMBDA e : e.sensorShapeId = sensorShapeId)

\* the events are grouped by sensor in ascending sensor index
AscendingSensors(events) ==
    \A a, b \in 1..Len(events) :
        a < b => shapes[events[a].sensorShapeId].sensorIndex
                    <= shapes[events[b].sensorShapeId].sensorIndex

\* C37: in a sensor pass the event bit of an enabled sensor is set exactly
\* when its new overlap array differs from the previous one in length or in
\* the shapeId or generation of some entry; a sensor whose bit is clear emits
\* no begin and no end event, a sensor whose bit is set is merged exactly
\* once, and the sensors are processed in ascending sensor index.
C37_EventBits ==
    [][PassStep =>
          /\ eventBits' \subseteq 0..(Len(sensors') - 1)
          /\ \A i \in 1..Len(sensors') :
                LET sensor == sensors'[i]
                    once == Merge(sensor.shapeId, sensor.overlaps1, sensor.overlaps2,
                                  0, 0, NoEvents)
                IN  /\ ~SensorOff(sensors[i]) =>
                          ((i - 1) \in eventBits' <=> sensor.overlaps1 # sensor.overlaps2)
                    /\ (i - 1) \notin eventBits' =>
                          /\ EventsOf(sensorBeginEvents', sensor.shapeId) = << >>
                          /\ EventsOf(sensorEndEvents', sensor.shapeId) = << >>
                    /\ (i - 1) \in eventBits' =>
                          /\ EventsOf(sensorBeginEvents', sensor.shapeId) = once.begin
                          /\ EventsOf(sensorEndEvents', sensor.shapeId) = once.end
          /\ AscendingSensors(sensorBeginEvents')
          /\ AscendingSensors(sensorEndEvents')]_vars

\* after a pass the bit of sensor 0 is set for an overlap array of the same
\* length with another generation, and sensor 1, whose array did not change,
\* has no bit and no event
C37_Witness ==
    /\ phase = "solve"
    /\ Len(sensors) = 2
    /\ eventBits = {0}
    /\ Len(sensors[1].overlaps1) = Len(sensors[1].overlaps2)
    /\ sensors[1].overlaps1 # sensors[1].overlaps2
    /\ sensors[2].overlaps2 # << >>
    /\ sensors[2].overlaps1 = sensors[2].overlaps2
    /\ sensorBeginEvents # << >>
    /\ EventsOf(sensorBeginEvents, sensors[2].shapeId) = << >>
    /\ EventsOf(sensorEndEvents, sensors[2].shapeId) = << >>

\* the entries of an overlap array with the given shapeId
EntriesOf(arr, shapeId) == {k \in 1..Len(arr) : arr[k].shapeId = shapeId}

\* C36: a visitor that a continuous hit reported for a sensor which is
\* enabled at the next sensor pass is in the sensor's overlap array after
\* that pass, once, whether or not the query finds it too (with the reported
\* generation when the query cannot find the shape), and it gets one begin
\* event if it was not in the overlap array before; an entry of the overlap
\* array that neither the query nor a hit reports at a pass gets an end
\* event in that pass.
C36_HitOverlaps ==
    [][PassStep =>
          \A i \in 1..Len(sensors) :
              LET before == sensors[i]
                  after == sensors'[i]
              IN  /\ ~SensorOff(before) =>
                        \A h \in 1..Len(before.hits) :
                            LET ref == before.hits[h]
                            IN  /\ Cardinality(EntriesOf(after.overlaps2, ref.shapeId)) = 1
                                /\ \A k \in EntriesOf(after.overlaps2, ref.shapeId) :
                                      LET entry == after.overlaps2[k]
                                      IN  /\ \/ entry = ref
                                             \/ /\ ref.shapeId \in Candidates(before)
                                                /\ entry.generation
                                                     = shapes[ref.shapeId].generation
                                          /\ entry \notin RefsOf(before.overlaps2) =>
                                                CountOf(sensorBeginEvents', before.shapeId,
                                                        entry) = 1
                  /\ \A ref \in RefsOf(before.overlaps2) \ RefsOf(after.overlaps2) :
                        CountOf(sensorEndEvents', before.shapeId, ref) >= 1
                  /\ after.hits = << >>]_vars

\* after a pass sensor 3 overlaps visitor 1 with generation 1, which began
\* in this pass, while the shape of the visitor no longer exists, so that
\* only a hit can have reported it
C36_Witness ==
    /\ phase = "solve"
    /\ Len(sensors) = 2
    /\ ~shapes[1].alive
    /\ 0 \in eventBits
    /\ sensors[1].shapeId = 3
    /\ sensors[1].overlaps2 = << b2Visitor(1, 1) >>
    /\ sensors[1].overlaps1 = << >>
    /\ CountOf(sensorBeginEvents, 3, b2Visitor(1, 1)) = 1

====
